---- MODULE Spec2Model ----
(***************************************************************************)
(* Model of the AVV analysis route (chunking, Oracle calls with backoff,   *)
(* JSON extraction, merge, reconciliation) of avv-dashboard, of the        *)
(* normalizers of the avv-check route and of the upload handler of the     *)
(* dashboard page.                                                         *)
(*                                                                         *)
(* Strings are sequences of one-character strings, so that length,         *)
(* slicing, trimming and splitting are computed as the code computes them. *)
(***************************************************************************)
EXTENDS Integers, Sequences, FiniteSets, TLC

VARIABLES
    req,      \* per request: the locals of POST and of its runWithBackoff frame
    inflight, \* Oracle calls issued (runner.run) and not yet settled
    cin,      \* chunker harness: the arguments of chunkTextDeterministic
    cout,     \* chunker harness: its result (<<>> before the call)
    cpc,      \* chunker harness: "in" before the call, "out" after it
    rin,      \* reconcile harness: the record handed to reconcileAndScore
    rout,     \* reconcile harness: its result (ok = FALSE: it threw)
    rpc,      \* reconcile harness: "in" before the call, "out" after it
    nin,      \* normalizer harness: the JSON handed to normalizeFrom...
    nout,     \* normalizer harness: the record returned
    npc,      \* normalizer harness: "in", then the name of the function applied
    xin,      \* extractor harness: the raw output (prose, object, commentary)
    xout,     \* extractor harness: its result (ok = FALSE: it threw msg)
    xpc,      \* extractor harness: "in" before the call, "out" after it
    page,     \* dashboard page: the React state data, loading, err, inputKey
    uploads   \* dashboard page: the onUpload invocations, each fetching or settled

\* ------------------------------------------------------------------ bounds

MaxTextLen == 8     \* longest text handed to the chunker harness
MaxTarget == 6      \* largest targetTokens tried
MaxHard == 3        \* largest hardMaxTokens tried
MaxCap == 3         \* largest maxChunks tried

\* POST passes targetTokens 7000, hardMaxTokens 8000 and maxChunks 28
\* (chunkTextDeterministic(inputText, 7_000, 8_000, 28)); the request model runs
\* the same chunker with the three numbers scaled down, so that texts of a few
\* characters give several chunks and reach the cap.
ReqTargetTokens == 3
ReqHardMaxTokens == 4
ReqMaxChunks == 2

\* runWithBackoff(fn, maxRetries = 3), let delay = 800
maxRetries == 3
BaseDelay == 800

\* ------------------------------------------------------------------ strings

NL == "\n"

Min(a, b) == IF a <= b THEN a ELSE b
Max(a, b) == IF a >= b THEN a ELSE b

\* JS whitespace as far as the modelled alphabets contain it
IsWs(c) == c \in {" ", NL, "\t", "\r"}

RECURSIVE TrimStart(_)
TrimStart(s) ==
    IF s # <<>> /\ IsWs(Head(s)) THEN TrimStart(Tail(s)) ELSE s

RECURSIVE TrimEnd(_)
TrimEnd(s) ==
    IF s # <<>> /\ IsWs(s[Len(s)]) THEN TrimEnd(SubSeq(s, 1, Len(s) - 1)) ELSE s

\* String.prototype.trim
Trim(s) == TrimEnd(TrimStart(s))

\* s.slice(from, to) with 0-based from, exclusive to, both >= 0
Slice(s, from, to) == SubSeq(s, from + 1, Min(to, Len(s)))

RECURSIVE Digits(_)
\* decimal rendering of a natural number (template literal ${n})
Digits(n) ==
    LET d == <<"0", "1", "2", "3", "4", "5", "6", "7", "8", "9">>[(n % 10) + 1]
    IN  IF n < 10 THEN <<d>> ELSE Append(Digits(n \div 10), d)

\* ------------------------------------------------------------------ chunker

\* Math.ceil(s.length / 4)
estimateTokens(s) == (Len(s) + 3) \div 4

RECURSIVE hardSplitFrom(_, _, _)
hardSplitFrom(s, i, maxChars) ==
    IF i < Len(s)
    THEN <<Slice(s, i, i + maxChars)>> \o hardSplitFrom(s, i + maxChars, maxChars)
    ELSE <<>>

\* for (i = 0; i < s.length; i += maxChars) out.push(s.slice(i, i + maxChars))
\* (maxChars >= 1; the loop does not end for maxChars <= 0)
hardSplitByChars(s, maxChars) == hardSplitFrom(s, 0, maxChars)

\* index of the first character at or after i that is no newline
RECURSIVE SkipNewlines(_, _)
SkipNewlines(s, i) ==
    IF i <= Len(s) /\ s[i] = NL THEN SkipNewlines(s, i + 1) ELSE i

RECURSIVE SplitFrom(_, _, _)
SplitFrom(s, i, cur) ==
    IF i > Len(s) THEN <<cur>>
    ELSE IF s[i] = NL /\ i + 1 <= Len(s) /\ s[i + 1] = NL
         THEN <<cur>> \o SplitFrom(s, SkipNewlines(s, i), <<>>)
         ELSE SplitFrom(s, i + 1, Append(cur, s[i]))

\* text.split(/\n{2,}/)
SplitParagraphs(text) == SplitFrom(text, 1, <<>>)

RECURSIVE TrimNonEmpty(_)
\* .map(s => s.trim()).filter(Boolean)
TrimNonEmpty(pieces) ==
    IF pieces = <<>> THEN <<>>
    ELSE LET t == Trim(Head(pieces))
         IN  (IF t = <<>> THEN <<>> ELSE <<t>>) \o TrimNonEmpty(Tail(pieces))

Units(text) == TrimNonEmpty(SplitParagraphs(text))

\* const flush = () => { if (!buf) return; chunks.push(buf.trim()); ... }
flushNoPush(st) == [st EXCEPT !.buf = <<>>, !.bufTok = 0]
flush(st) ==
    IF st.buf = <<>> THEN st
    ELSE [st EXCEPT !.chunks = Append(@, Trim(st.buf)), !.buf = <<>>, !.bufTok = 0]

RECURSIVE PushParts(_, _, _, _)
\* for (const part of parts) { chunks.push(part.trim()); if (chunks.length >= maxChunks) break; }
PushParts(chunks, parts, k, maxChunks) ==
    IF k > Len(parts) THEN chunks
    ELSE LET c2 == Append(chunks, Trim(parts[k]))
         IN  IF Len(c2) >= maxChunks THEN c2
             ELSE PushParts(c2, parts, k + 1, maxChunks)

\* one iteration of the for-loop over the units; brk = the loop was left by break
ChunkStep(st, u, targetTokens, hardMaxTokens, maxChunks) ==
    LET t == estimateTokens(u) + 2
    IN  IF t > hardMaxTokens
        THEN LET f == flush(st)
                 c2 == PushParts(f.chunks, hardSplitByChars(u, hardMaxTokens * 4), 1, maxChunks)
             IN  [f EXCEPT !.chunks = c2, !.brk = Len(c2) >= maxChunks]
        ELSE IF st.bufTok = 0
        THEN [st EXCEPT !.buf = u, !.bufTok = t]
        ELSE LET n == IF st.bufTok + t <= targetTokens
                      THEN [st EXCEPT !.buf = @ \o <<NL, NL>> \o u, !.bufTok = @ + t]
                      ELSE [flush(st) EXCEPT !.buf = u, !.bufTok = t]
             IN  [n EXCEPT !.brk = Len(n.chunks) >= maxChunks]

RECURSIVE ChunkLoop(_, _, _, _, _, _)
ChunkLoop(st, units, k, targetTokens, hardMaxTokens, maxChunks) ==
    IF k > Len(units) \/ st.brk THEN st
    ELSE ChunkLoop(ChunkStep(st, units[k], targetTokens, hardMaxTokens, maxChunks),
                   units, k + 1, targetTokens, hardMaxTokens, maxChunks)

\* template literal BLOCK ${i + 1}/${Math.min(total, maxChunks)}\n\n${c} (i1 = i + 1)
WithHeaderUncappedTotal(c, i1, total, maxChunks) ==
    <<"B", "L", "O", "C", "K", " ">> \o Digits(i1) \o <<"/">>
        \o Digits(total) \o <<NL, NL>> \o c
WithHeader(c, i1, total, maxChunks) ==
    <<"B", "L", "O", "C", "K", " ">> \o Digits(i1) \o <<"/">>
        \o Digits(Min(total, maxChunks)) \o <<NL, NL>> \o c

\* chunks.slice(0, maxChunks), maxChunks >= 0
SliceChunksUncapped(chunks, maxChunks) == chunks
SliceChunks(chunks, maxChunks) == SubSeq(chunks, 1, Min(Len(chunks), maxChunks))

\* the chunk bodies before the header is added
ChunkBodies(text, targetTokens, hardMaxTokens, maxChunks) ==
    IF Trim(text) = <<>> THEN <<>>
    ELSE LET st0 == [chunks |-> <<>>, buf |-> <<>>, bufTok |-> 0, brk |-> FALSE]
             done == flush(ChunkLoop(st0, Units(text), 1, targetTokens, hardMaxTokens, maxChunks))
         IN  done.chunks

chunkTextDeterministic(text, targetTokens, hardMaxTokens, maxChunks) ==
    LET all == ChunkBodies(text, targetTokens, hardMaxTokens, maxChunks)
        kept == SliceChunks(all, maxChunks)
    IN  [i \in 1..Len(kept) |-> WithHeader(kept[i], i, Len(all), maxChunks)]

\* ------------------------------------------------------------------ JSON values

\* A JSON value is a record of one shape for every type, so that any two values
\* compare: t is the type, n the number (or 0/1 for a boolean), s the string,
\* keys/items the members of an object (parallel, in insertion order), items
\* alone the elements of an array.
JNull == [t |-> "null", n |-> 0, s |-> <<>>, keys |-> <<>>, items |-> <<>>]
JBool(b) == [t |-> "bool", n |-> IF b THEN 1 ELSE 0, s |-> <<>>, keys |-> <<>>, items |-> <<>>]
JNum(k) == [t |-> "num", n |-> k, s |-> <<>>, keys |-> <<>>, items |-> <<>>]
JStr(str) == [t |-> "str", n |-> 0, s |-> str, keys |-> <<>>, items |-> <<>>]
JArr(elems) == [t |-> "arr", n |-> 0, s |-> <<>>, keys |-> <<>>, items |-> elems]
JObj(ks, vs) == [t |-> "obj", n |-> 0, s |-> <<>>, keys |-> ks, items |-> vs]

\* index of key k in an object's key list, 0 when absent
RECURSIVE KeyIndex(_, _, _)
KeyIndex(ks, k, i) ==
    IF i > Len(ks) THEN 0
    ELSE IF ks[i] = k THEN i ELSE KeyIndex(ks, k, i + 1)

\* obj[k] = v: a repeated key keeps its first position and takes the last value
SetMember(o, k, v) ==
    LET i == KeyIndex(o.keys, k, 1)
    IN  IF i = 0 THEN JObj(Append(o.keys, k), Append(o.items, v))
        ELSE JObj(o.keys, [o.items EXCEPT ![i] = v])

\* ------------------------------------------------------------------ JSON.parse

DigitChars == <<"0", "1", "2", "3", "4", "5", "6", "7", "8", "9">>
IsDigit(c) == \E d \in 1..10 : DigitChars[d] = c
DigitVal(c) == (CHOOSE d \in 1..10 : DigitChars[d] = c) - 1

PFail == [ok |-> FALSE, pos |-> 0, val |-> JNull]
POk(p, v) == [ok |-> TRUE, pos |-> p, val |-> v]

\* JSON whitespace
RECURSIVE SkipWs(_, _)
SkipWs(s, i) ==
    IF i <= Len(s) /\ s[i] \in {" ", NL, "\t", "\r"} THEN SkipWs(s, i + 1) ELSE i

\* does s continue at i with the characters of lit
StartsWith(s, i, lit) ==
    /\ i + Len(lit) - 1 <= Len(s)
    /\ \A k \in 1..Len(lit) : s[i + k - 1] = lit[k]

\* the characters of a string literal after its opening quote; escapes \" \\ \/ \n
\* are decoded, a raw control character (newline, tab) ends the parse with an error
RECURSIVE ParseStringBody(_, _, _)
ParseStringBody(s, i, acc) ==
    IF i > Len(s) THEN PFail
    ELSE IF s[i] = "\"" THEN POk(i + 1, JStr(acc))
    ELSE IF s[i] = "\\"
         THEN IF i + 1 > Len(s) THEN PFail
              ELSE IF s[i + 1] \in {"\"", "\\", "/"}
                   THEN ParseStringBody(s, i + 2, Append(acc, s[i + 1]))
              ELSE IF s[i + 1] = "n" THEN ParseStringBody(s, i + 2, Append(acc, NL))
              ELSE PFail
    ELSE IF s[i] \in {NL, "\t", "\r"} THEN PFail
    ELSE ParseStringBody(s, i + 1, Append(acc, s[i]))

RECURSIVE ParseDigits(_, _, _)
ParseDigits(s, i, acc) ==
    IF i <= Len(s) /\ IsDigit(s[i]) THEN ParseDigits(s, i + 1, acc * 10 + DigitVal(s[i]))
    ELSE POk(i, JNum(acc))

\* an integer: -? (0 | [1-9][0-9]*); fractions and exponents are outside the
\* modelled alphabet
ParseNumber(s, i) ==
    LET neg == i <= Len(s) /\ s[i] = "-"
        j == IF neg THEN i + 1 ELSE i
    IN  IF j > Len(s) \/ ~IsDigit(s[j]) THEN PFail
        ELSE IF s[j] = "0" THEN POk(j + 1, JNum(0))
        ELSE LET r == ParseDigits(s, j, 0)
             IN  IF neg THEN POk(r.pos, JNum(0 - r.val.n)) ELSE r

RECURSIVE ParseValue(_, _)
RECURSIVE ParseMembers(_, _, _)
RECURSIVE ParseElements(_, _, _)

\* value at position i (leading whitespace skipped)
ParseValue(s, i0) ==
    LET i == SkipWs(s, i0)
    IN  IF i > Len(s) THEN PFail
        ELSE IF s[i] = "{"
             THEN LET j == SkipWs(s, i + 1)
                  IN  IF j <= Len(s) /\ s[j] = "}" THEN POk(j + 1, JObj(<<>>, <<>>))
                      ELSE ParseMembers(s, j, JObj(<<>>, <<>>))
        ELSE IF s[i] = "["
             THEN LET j == SkipWs(s, i + 1)
                  IN  IF j <= Len(s) /\ s[j] = "]" THEN POk(j + 1, JArr(<<>>))
                      ELSE ParseElements(s, j, <<>>)
        ELSE IF s[i] = "\"" THEN ParseStringBody(s, i + 1, <<>>)
        ELSE IF StartsWith(s, i, <<"n", "u", "l", "l">>) THEN POk(i + 4, JNull)
        ELSE IF StartsWith(s, i, <<"t", "r", "u", "e">>) THEN POk(i + 4, JBool(TRUE))
        ELSE IF StartsWith(s, i, <<"f", "a", "l", "s", "e">>) THEN POk(i + 5, JBool(FALSE))
        ELSE ParseNumber(s, i)

\* "key" : value ( , "key" : value )* }
ParseMembers(s, i0, acc) ==
    LET i == SkipWs(s, i0)
    IN  IF i > Len(s) \/ s[i] # "\"" THEN PFail
        ELSE LET k == ParseStringBody(s, i + 1, <<>>)
             IN  IF ~k.ok THEN PFail
                 ELSE LET c == SkipWs(s, k.pos)
                      IN  IF c > Len(s) \/ s[c] # ":" THEN PFail
                          ELSE LET v == ParseValue(s, c + 1)
                               IN  IF ~v.ok THEN PFail
                                   ELSE LET e == SkipWs(s, v.pos)
                                            o == SetMember(acc, k.val.s, v.val)
                                        IN  IF e > Len(s) THEN PFail
                                            ELSE IF s[e] = "}" THEN POk(e + 1, o)
                                            ELSE IF s[e] = "," THEN ParseMembers(s, e + 1, o)
                                            ELSE PFail

\* value ( , value )* ]
ParseElements(s, i0, acc) ==
    LET v == ParseValue(s, i0)
    IN  IF ~v.ok THEN PFail
        ELSE LET e == SkipWs(s, v.pos)
                 a == Append(acc, v.val)
             IN  IF e > Len(s) THEN PFail
                 ELSE IF s[e] = "]" THEN POk(e + 1, JArr(a))
                 ELSE IF s[e] = "," THEN ParseElements(s, e + 1, a)
                 ELSE PFail

\* JSON.parse(text): ok = it returned, val = the value; ok = FALSE for a SyntaxError
JsonParse(text) ==
    LET r == ParseValue(text, 1)
    IN  IF r.ok /\ SkipWs(text, r.pos) > Len(text) THEN r ELSE PFail

\* ------------------------------------------------------------------ extractJson

Lower(c) ==
    LET up == <<"A", "B", "C", "D", "E", "F", "G", "H", "I", "J", "K", "L", "M",
                "N", "O", "P", "Q", "R", "S", "T", "U", "V", "W", "X", "Y", "Z">>
        lo == <<"a", "b", "c", "d", "e", "f", "g", "h", "i", "j", "k", "l", "m",
                "n", "o", "p", "q", "r", "s", "t", "u", "v", "w", "x", "y", "z">>
    IN  IF \E k \in 1..26 : up[k] = c THEN lo[CHOOSE k \in 1..26 : up[k] = c] ELSE c

ToLower(s) == [k \in 1..Len(s) |-> Lower(s[k])]

\* the backtick character (TLA+ strings cannot hold it)
BackTick == "BACKTICK"
Fence == <<BackTick, BackTick, BackTick>>

\* .replace(/FENCE(?:json)?/gi, "") with FENCE = three backticks: scanning left to right, every fence, with a
\* directly following "json" in any case, is removed
RECURSIVE StripFences(_, _)
StripFences(s, i) ==
    IF i > Len(s) THEN <<>>
    ELSE IF StartsWith(s, i, Fence)
         THEN IF StartsWith(ToLower(s), i + 3, <<"j", "s", "o", "n">>)
              THEN StripFences(s, i + 7)
              ELSE StripFences(s, i + 3)
         ELSE <<s[i]>> \o StripFences(s, i + 1)

\* .replace(/FENCE/g, "")
RECURSIVE StripTriple(_, _)
StripTriple(s, i) ==
    IF i > Len(s) THEN <<>>
    ELSE IF StartsWith(s, i, Fence) THEN StripTriple(s, i + 3)
         ELSE <<s[i]>> \o StripTriple(s, i + 1)

FirstIndexOf(s, c) ==
    IF \E k \in 1..Len(s) : s[k] = c
    THEN CHOOSE k \in 1..Len(s) : s[k] = c /\ \A j \in 1..(k - 1) : s[j] # c
    ELSE 0

LastIndexOf(s, c) ==
    IF \E k \in 1..Len(s) : s[k] = c
    THEN CHOOSE k \in 1..Len(s) : s[k] = c /\ \A j \in (k + 1)..Len(s) : s[j] # c
    ELSE 0

\* cleaned.match(/\{[\s\S]*\}/g): the pattern is greedy, so the one match runs
\* from the first "{" to the last "}" behind it; <<>> when there is no match
BraceMatch(cleaned) ==
    LET a == FirstIndexOf(cleaned, "{")
        b == LastIndexOf(cleaned, "}")
    IN  IF a # 0 /\ b > a THEN SubSeq(cleaned, a, b) ELSE <<>>

MsgEmptyAnswer == <<"Leere Antwort vom Agent.">>
MsgNoJsonBlock == <<"Kein JSON-Block gefunden.">>
MsgSyntaxError == <<"SyntaxError">>

\* extractJson(output): ok = it returned val; otherwise it threw an Error with msg
extractJson(output) ==
    IF output = <<>> THEN [ok |-> FALSE, val |-> JNull, msg |-> MsgEmptyAnswer]
    ELSE LET cleaned == StripTriple(StripFences(output, 1), 1)
             biggest == BraceMatch(cleaned)
         IN  IF biggest = <<>> THEN [ok |-> FALSE, val |-> JNull, msg |-> MsgNoJsonBlock]
             ELSE LET r == JsonParse(biggest)
                  IN  IF r.ok THEN [ok |-> TRUE, val |-> r.val, msg |-> <<>>]
                      ELSE [ok |-> FALSE, val |-> JNull, msg |-> MsgSyntaxError]

\* ------------------------------------------------------------------ reconcileAndScore

\* undefined, as a member value or the result of a lookup
JUndef == [t |-> "undef", n |-> 0, s |-> <<>>, keys |-> <<>>, items |-> <<>>]
\* the number k/2 for odd k (a weight of 15 at factor 0.5 gives 7.5)
JHalves(k) ==
    IF k % 2 = 0 THEN JNum(k \div 2)
    ELSE [t |-> "num", n |-> k, s |-> <<"/2">>, keys |-> <<>>, items |-> <<>>]
\* twice the value of a number
Twice(v) == IF v.s = <<>> THEN 2 * v.n ELSE v.n

\* raw?.k / raw.k for a key that is no built-in property: the member of an
\* object, otherwise undefined
Get(v, k) ==
    LET i == IF v.t = "obj" THEN KeyIndex(v.keys, k, 1) ELSE 0
    IN  IF i = 0 THEN JUndef ELSE v.items[i]

\* JS truthiness
Truthy(v) ==
    CASE v.t \in {"undef", "null"} -> FALSE
      [] v.t = "bool" -> v.n = 1
      [] v.t = "num" -> v.n # 0
      [] v.t = "str" -> v.s # <<>>
      [] OTHER -> TRUE

\* a ?? b
Coalesce(a, b) == IF a.t \in {"undef", "null"} THEN b ELSE a
\* a || b
OrElse(a, b) == IF Truthy(a) THEN a ELSE b

\* toArray(v): Array.isArray(v) ? v : []
toArray(v) == IF v.t = "arr" THEN v.items ELSE <<>>

RECURSIVE ToStr(_)
RECURSIVE JoinStr(_, _)
\* String(v)
ToStr(v) ==
    CASE v.t = "str" -> v.s
      [] v.t = "num" -> IF v.s # <<>> THEN (IF v.n < 0 THEN <<"-">> ELSE <<>>)
                                           \o Digits((IF v.n < 0 THEN 0 - v.n ELSE v.n) \div 2) \o <<".", "5">>
                        ELSE IF v.n < 0 THEN <<"-">> \o Digits(0 - v.n) ELSE Digits(v.n)
      [] v.t = "bool" -> IF v.n = 1 THEN <<"t", "r", "u", "e">> ELSE <<"f", "a", "l", "s", "e">>
      [] v.t = "null" -> <<"n", "u", "l", "l">>
      [] v.t = "undef" -> <<"undefined">>
      [] v.t = "arr" -> JoinStr(v.items, 1)
      [] OTHER -> <<"[object Object]">>
\* Array.prototype.join(","): null and undefined elements give ""
JoinStr(items, i) ==
    IF i > Len(items) THEN <<>>
    ELSE (IF i > 1 THEN <<",">> ELSE <<>>)
         \o (IF items[i].t \in {"null", "undef"} THEN <<>> ELSE ToStr(items[i]))
         \o JoinStr(items, i + 1)

\* s.replace(/\s+/g, " "): a character that is no whitespace stays, a run of
\* whitespace gives one space (written at the first character of the run); the
\* range lo..hi is halved so that a long quote needs little depth
RECURSIVE CollapseRange(_, _, _)
CollapseRange(s, lo, hi) ==
    IF lo > hi THEN <<>>
    ELSE IF lo = hi
         THEN IF ~IsWs(s[lo]) THEN <<s[lo]>>
              ELSE IF lo > 1 /\ IsWs(s[lo - 1]) THEN <<>> ELSE <<" ">>
         ELSE CollapseRange(s, lo, (lo + hi) \div 2) \o CollapseRange(s, (lo + hi) \div 2 + 1, hi)
CollapseWs(s) == CollapseRange(s, 1, Len(s))

QuoteMax == 240
\* trimQuote = s => s.replace(/\s+/g, " ").slice(0, 240)
trimQuote(s) == Slice(CollapseWs(s), 0, QuoteMax)

\* property names and literals of the record; a word is one symbol of the alphabet
K(word) == <<word>>
Met == <<"m", "e", "t">>
Partial == <<"p", "a", "r", "t", "i", "a", "l">>
Erfuellt == <<"e", "r", "f", "ue", "l", "l", "t">>
Teilweise == <<"t", "e", "i", "l", "w", "e", "i", "s", "e">>
Present == <<"p", "r", "e", "s", "e", "n", "t">>
Missing == <<"m", "i", "s", "s", "i", "n", "g">>
NotFound == <<"n", "o", "t", "_", "f", "o", "u", "n", "d">>
High == <<"h", "i", "g", "h">>
Medium == <<"m", "e", "d", "i", "u", "m">>

\* WEIGHTS, in the order of Object.entries
WeightKeys ==
    <<K("instructions_only"), K("confidentiality"), K("security_TOMs"), K("subprocessors"),
      K("data_subject_rights_support"), K("breach_support"), K("deletion_return"),
      K("audit_rights")>>
WEIGHTS == <<15, 10, 20, 15, 10, 10, 10, 10>>
A28_KEYS == {WeightKeys[i] : i \in 1..Len(WeightKeys)}
EXTRA_KEYS == {K("international_transfers"), K("liability_cap"), K("jurisdiction")}

\* STATUS_TO_FACTOR throws for a truthy status that is no string
\* ((s || "").toLowerCase is not a function)
StatusThrows(status) == Truthy(status) /\ status.t # "str"
\* twice STATUS_TO_FACTOR(status): met 1, partial 0.5, otherwise 0
StatusFactor2(status) ==
    LET v == IF status.t = "str" THEN ToLower(status.s) ELSE <<>>
    IN  IF v = Met \/ v = Erfuellt THEN 2
        ELSE IF v = Partial \/ v = Teilweise THEN 1
        ELSE 0

JEmptyStr == JStr(<<>>)
IsStr(v, lit) == v.t = "str" /\ v.s = lit

\* the evidence entry built from e
EvidenceOf(e) ==
    JObj(<<K("quote"), K("page")>>,
         <<JStr(trimQuote(ToStr(Coalesce(Get(e, K("quote")), JEmptyStr)))),
           IF Get(e, K("page")).t = "num" /\ Get(e, K("page")).s = <<>>
           THEN Get(e, K("page")) ELSE JUndef>>)

\* the bucket node built from a finding v
NodeOf(v) ==
    LET ev == toArray(Coalesce(Get(v, K("evidence")), Get(v, K("belege"))))
        two == SubSeq(ev, 1, Min(2, Len(ev)))
    IN  JObj(<<K("status"), K("evidence")>>,
             <<Get(v, K("status")), JArr([i \in 1..Len(two) |-> EvidenceOf(two[i])])>>)

\* the members of src as Object.entries gives them: of an object its members,
\* of an array its elements under their indices
EntriesOf(src) ==
    IF src.t = "arr"
    THEN JObj([i \in 1..Len(src.items) |-> Digits(i - 1)], src.items)
    ELSE src

RECURSIVE CollectEntries(_, _, _)
CollectEntries(buckets, src, i) ==
    IF i > Len(src.keys) THEN buckets
    ELSE LET v == src.items[i]
         IN  CollectEntries(IF v.t \in {"obj", "arr"}
                            THEN SetMember(buckets, src.keys[i], NodeOf(v))
                            ELSE buckets,
                            src, i + 1)

RECURSIVE CollectSources(_, _, _)
\* for (const src of sources) { if (!src || typeof src !== "object") continue; ... }
CollectSources(buckets, sources, i) ==
    IF i > Len(sources) THEN buckets
    ELSE CollectSources(IF sources[i].t \in {"obj", "arr"}
                        THEN CollectEntries(buckets, EntriesOf(sources[i]), 1)
                        ELSE buckets,
                        sources, i + 1)

RECURSIVE PickKeys(_, _, _, _)
\* the buckets whose key is in allowed, in the order of Object.keys(buckets)
PickKeys(buckets, allowed, i, acc) ==
    IF i > Len(buckets.keys) THEN acc
    ELSE PickKeys(buckets, allowed, i + 1,
                  IF buckets.keys[i] \in allowed
                  THEN SetMember(acc, buckets.keys[i], buckets.items[i]) ELSE acc)

\* Parteien-Objekt -> Array
PartiesOf(p) ==
    IF p.t = "obj"
    THEN LET land == OrElse(Get(p, K("country")), JStr(<<"D", "E">>))
             entry(rolle, who) ==
                 JObj(<<K("rolle"), K("name"), K("land")>>,
                      <<JStr(K(rolle)), JStr(ToStr(Get(p, K(who)))), land>>)
         IN  JArr((IF Truthy(Get(p, K("controller")))
                   THEN <<entry("Verantwortlicher", "controller")>> ELSE <<>>)
                  \o (IF Truthy(Get(p, K("processor")))
                      THEN <<entry("Auftragsverarbeiter", "processor")>> ELSE <<>>))
    ELSE IF p.t = "arr" THEN p
    ELSE JArr(<<>>)

\* the action built by .map(a => ({ category, severity, action }))
ActionOf(a) ==
    JObj(<<K("category"), K("severity"), K("action")>>,
         <<Coalesce(Get(a, K("category")),
               Coalesce(Get(a, K("key")), Coalesce(Get(a, K("type")), JEmptyStr))),
           Coalesce(Get(a, K("severity")), JStr(Medium)),
           Coalesce(Get(a, K("action")),
               Coalesce(Get(a, K("recommendation")),
                   Coalesce(Get(a, K("suggested_clause")), JEmptyStr)))>>)

RECURSIVE MapActions(_, _)
\* .map(...).filter(a => a.category && a.action)
MapActions(acts, i) ==
    IF i > Len(acts) THEN <<>>
    ELSE LET a == ActionOf(acts[i])
         IN  (IF Truthy(Get(a, K("category"))) /\ Truthy(Get(a, K("action")))
              THEN <<a>> ELSE <<>>) \o MapActions(acts, i + 1)

RECURSIVE SumSeq(_, _)
SumSeq(f, i) == IF i > Len(f) THEN 0 ELSE f[i] + SumSeq(f, i + 1)

\* Math.round of k/2 (halves round towards +infinity)
RoundHalves(k) == (k + 1) \div 2
\* Math.max(0, Math.min(100, x))
Clamp100NoFloor(x) == Min(100, x)
Clamp100(x) == Max(0, Min(100, x))

RECURSIVE Serialize(_)
RECURSIVE SerializeMembers(_, _, _)
\* what JSON.stringify writes of v: members that are undefined are left out
Serialize(v) ==
    CASE v.t = "obj" -> SerializeMembers(v, 1, JObj(<<>>, <<>>))
      [] v.t = "arr" -> JArr([i \in 1..Len(v.items) |->
                                 IF v.items[i].t = "undef" THEN JNull ELSE Serialize(v.items[i])])
      [] OTHER -> v
SerializeMembers(v, i, acc) ==
    IF i > Len(v.keys) THEN acc
    ELSE SerializeMembers(v, i + 1,
                          IF v.items[i].t = "undef" THEN acc
                          ELSE SetMember(acc, v.keys[i], Serialize(v.items[i])))

\* out.risk_score.overall = Number.isFinite(riskFromAgent) ? riskFromAgent : (100 - total),
\* riskFromAgent = the overall of raw.risk_score when it is a number, else null
RiskOverallDerived(riskFromAgent, total) == JNum(100 - total)
RiskOverall(riskFromAgent, total) ==
    IF riskFromAgent.t = "num" THEN riskFromAgent ELSE JNum(100 - total)

\* out.compliance_score.overall = total
ComplianceOverallPreferAgent(raw, total) ==
    LET given == Get(Get(raw, K("compliance_score")), K("overall"))
    IN  IF given.t = "num" /\ given.s = <<>> THEN given ELSE JNum(total)
ComplianceOverall(raw, total) == JNum(total)

\* reconcileAndScore(raw): ok = FALSE when it throws a TypeError; val = the
\* record as NextResponse.json serializes it
reconcileAndScore(raw) ==
    LET meta == Get(raw, K("contract_metadata"))
        p == Coalesce(Get(meta, K("parties")), Coalesce(Get(raw, K("parties")), JNull))
        dpo == IF p.t = "obj" /\ Truthy(Get(p, K("processor_dpo")))
               THEN <<JStr(ToStr(Get(p, K("processor_dpo"))))>> ELSE <<>>
        metadata ==
            JObj(<<K("title"), K("date"), K("parties")>>
                     \o (IF dpo = <<>> THEN <<>> ELSE <<K("processor_dpo")>>),
                 <<Coalesce(Get(meta, K("title")), JEmptyStr),
                   Coalesce(Get(meta, K("date")), JEmptyStr),
                   PartiesOf(p)>> \o dpo)
        buckets == CollectSources(JObj(<<>>, <<>>),
                                  <<Get(raw, K("article_28_analysis")),
                                    Get(raw, K("additional_clauses")),
                                    Get(raw, K("findings"))>>, 1)
        a28 == PickKeys(buckets, A28_KEYS, 1, JObj(<<>>, <<>>))
        extra == PickKeys(buckets, EXTRA_KEYS, 1, JObj(<<>>, <<>>))
        acts == toArray(Get(raw, K("recommended_actions"))) \o toArray(Get(raw, K("actions")))
        actsThrow == \E i \in 1..Len(acts) : acts[i].t = "null"
        actions == MapActions(acts, 1)
        statusOf(k) == Get(Get(a28, k), K("status"))
        scoreThrows == \E i \in 1..Len(WeightKeys) : StatusThrows(statusOf(WeightKeys[i]))
        pts2 == [i \in 1..Len(WeightKeys) |-> WEIGHTS[i] * StatusFactor2(statusOf(WeightKeys[i]))]
        base2 == SumSeq(pts2, 1)
        intl == Get(Get(extra, K("international_transfers")), K("status"))
        liab == Get(Get(extra, K("liability_cap")), K("status"))
        juris == Get(Get(extra, K("jurisdiction")), K("status"))
        bonus == (IF IsStr(intl, Met) THEN 5 ELSE IF IsStr(intl, Present) THEN 3
                  ELSE IF IsStr(intl, Partial) THEN 2 ELSE 0)
                 + (IF IsStr(liab, Met) \/ IsStr(liab, Present) THEN 2 ELSE 0)
                 + (IF IsStr(juris, Met) \/ IsStr(juris, Present) THEN 2 ELSE 0)
        sev(i) == Get(actions[i], K("severity"))
        mediumOrHigh == Cardinality({i \in 1..Len(actions) : IsStr(sev(i), Medium) \/ IsStr(sev(i), High)})
        corrections == (IF mediumOrHigh >= 3 THEN 5 ELSE 0)
                       + (IF \E i \in 1..Len(actions) : IsStr(sev(i), High) THEN 5 ELSE 0)
                       + (IF IsStr(liab, Missing) \/ IsStr(liab, NotFound) THEN 5 ELSE 0)
                       + (IF IsStr(intl, Missing) THEN 3 ELSE 0)
        total == Clamp100(RoundHalves(base2 + 2 * bonus - 2 * corrections))
        details == JObj(WeightKeys \o <<K("bonus"), K("penalties"), K("corrections")>>,
                        [i \in 1..Len(WeightKeys) |-> JHalves(pts2[i])]
                            \o <<JNum(bonus), JNum(0), JNum(corrections)>>)
        riskFromAgent == Get(Get(raw, K("risk_score")), K("overall"))
        risk == RiskOverall(riskFromAgent, total)
        out == JObj(<<K("executive_summary"), K("contract_metadata"), K("article_28_analysis"),
                      K("additional_clauses"), K("recommended_actions"), K("compliance_score"),
                      K("risk_score"), K("version")>>,
                    <<Coalesce(Get(raw, K("executive_summary")), JEmptyStr),
                      metadata, a28, extra, JArr(actions),
                      JObj(<<K("overall"), K("details")>>, <<ComplianceOverall(raw, total), details>>),
                      JObj(<<K("overall"), K("rationale")>>,
                           <<risk, Coalesce(Get(Get(raw, K("risk_score")), K("rationale")), JEmptyStr)>>),
                      JStr(K("2025-10-31-stable2"))>>)
    IN  IF actsThrow \/ scoreThrows THEN [ok |-> FALSE, val |-> JNull]
        ELSE [ok |-> TRUE, val |-> Serialize(out)]

\* ------------------------------------------------------------------ runWithBackoff

NoErr == [set |-> FALSE, message |-> <<>>, code |-> ""]
Err(m, c) == [set |-> TRUE, message |-> m, code |-> c]

\* does pat occur in s
Contains(s, pat) == \E i \in 1..(Len(s) - Len(pat) + 1) : StartsWith(s, i, pat)

\* String(err?.message || err) of an Error object
ErrString(err) == IF err.message # <<>> THEN err.message ELSE <<"Error">>

RateLimitPatterns ==
    { <<"t", "o", "o", "_", "m", "a", "n", "y", "_", "r", "e", "q", "u", "e", "s", "t", "s">>,
      <<"r", "a", "t", "e", " ", "l", "i", "m", "i", "t">>,
      <<"t", "o", "k", "e", "n", "s", " ", "p", "e", "r", " ", "m", "i", "n">>,
      <<"t", "p", "m">>,
      <<"o", "v", "e", "r", "l", "o", "a", "d", "e", "d">> }

\* /too_many_requests|rate limit|tokens per min|tpm|overloaded/i.test(msg) ||
\* err?.code === "too_many_requests"
isRateLimit(err) ==
    \/ \E pat \in RateLimitPatterns : Contains(ToLower(ErrString(err)), pat)
    \/ err.code = "too_many_requests"

\* if (!isRateLimit || attempt === maxRetries) throw err;
ShouldRethrowNoCeiling(rateLimit, attempt) == ~rateLimit
ShouldRethrowIgnoreKind(rateLimit, attempt) == attempt = maxRetries
ShouldRethrow(rateLimit, attempt) == ~rateLimit \/ attempt = maxRetries

\* delay *= 2
NextDelaySame(delay) == delay
NextDelay(delay) == delay * 2

\* the locals of a fresh runWithBackoff call, with the counters kept about it
FreshBackoff(q) ==
    [q EXCEPT !.attempt = 0, !.delay = BaseDelay, !.lastErr = NoErr,
              !.waits = <<>>, !.invocations = 0, !.failures = 0]

\* ------------------------------------------------------------------ POST

NoRes == [set |-> FALSE, has |-> FALSE, finalOutput |-> <<>>]
\* what runner.run resolved with: has = the result carries a finalOutput
Res(has, out) == [set |-> TRUE, has |-> has, finalOutput |-> out]
\* res?.finalOutput is truthy
HasFinalOutput(res) == res.set /\ res.has /\ res.finalOutput # <<>>

NoResponse == [status |-> 0, error |-> <<>>, details |-> <<>>, body |-> JNull]
\* NextResponse.json({ error: "Kein Text übergeben." }, { status: 400 })
Response400 ==
    [status |-> 400, error |-> <<"Kein Text uebergeben.">>, details |-> <<>>, body |-> JNull]
\* NextResponse.json({ error: "Agent-Serverfehler", details: e?.message ?? String(e) }, { status: 500 })
Response500(msg) ==
    [status |-> 500, error |-> <<"Agent-Serverfehler">>, details |-> msg, body |-> JNull]
\* NextResponse.json(reconciled)
Response200(rec) == [status |-> 200, error |-> <<>>, details |-> <<>>, body |-> rec]

MsgPdfEmpty == <<"PDF-Text leer oder nicht lesbar.">>
MsgTrimNotAFunction == <<"TypeError: trim is not a function">>
MsgNoMergeOutput == <<"Merge-Agent lieferte keine finale Ausgabe.">>
MsgBackoffFailed == <<"Backoff failed.">>
MsgReconcileTypeError == <<"TypeError">>

\* the catch block of POST: the request ends with the 500 response
Fail(q, msg) == [q EXCEPT !.pc = "done", !.phase = "FAILED", !.response = Response500(msg)]

Nul == "NUL"

RECURSIVE RemoveChar(_, _)
RemoveChar(s, c) ==
    IF s = <<>> THEN <<>>
    ELSE (IF Head(s) = c THEN <<>> ELSE <<Head(s)>>) \o RemoveChar(Tail(s), c)

\* .replace(/[ \t]+/g, " ")
RECURSIVE CollapseBlanks(_)
CollapseBlanks(s) ==
    IF s = <<>> THEN <<>>
    ELSE IF Head(s) \in {" ", "\t"}
         THEN IF Len(s) >= 2 /\ s[2] \in {" ", "\t"} THEN CollapseBlanks(Tail(s))
              ELSE <<" ">> \o CollapseBlanks(Tail(s))
         ELSE <<Head(s)>> \o CollapseBlanks(Tail(s))

\* .replace(/\n{3,}/g, "\n\n")
RECURSIVE CollapseNewlines(_, _)
CollapseNewlines(s, i) ==
    IF i > Len(s) THEN <<>>
    ELSE IF s[i] = NL
         THEN LET j == SkipNewlines(s, i)
              IN  (IF j - i >= 3 THEN <<NL, NL>> ELSE SubSeq(s, i, j - 1)) \o CollapseNewlines(s, j)
         ELSE <<s[i]>> \o CollapseNewlines(s, i + 1)

\* pdfToText: ok = FALSE when it throws (unreadable file or blank text)
pdfToText(readable, raw) ==
    IF ~readable \/ Trim(raw) = <<>> THEN [ok |-> FALSE, text |-> <<>>]
    ELSE LET a == RemoveChar(raw, Nul)
             b == [k \in 1..Len(a) |-> IF a[k] = "\r" THEN NL ELSE a[k]]
         IN  [ok |-> TRUE, text |-> Trim(CollapseNewlines(CollapseBlanks(b), 1))]

\* if (!inputText)
IsEmptyInputNever(inputText) == FALSE
IsEmptyInput(inputText) == inputText = <<>>

\* lines 442-453: the input text, or the error thrown while reading it
\*   form: formData() gave a form; file: "none" | "pdf" | "other";
\*   jsonOk: req.json() gave a body; textKind: "absent" | "string" | "other"
\*   (a text field that is no string has no trim method)
ReadInputText(in) ==
    IF in.textKind = "other" /\ (in.form \/ in.jsonOk)
    THEN [ok |-> FALSE, text |-> <<>>, msg |-> MsgTrimNotAFunction]
    ELSE IF in.form
    THEN IF in.file = "pdf"
         THEN LET t == pdfToText(in.pdfReadable, in.pdfText)
              IN  IF t.ok THEN [ok |-> TRUE, text |-> t.text, msg |-> <<>>]
                  ELSE [ok |-> FALSE, text |-> <<>>, msg |-> MsgPdfEmpty]
         ELSE [ok |-> TRUE, msg |-> <<>>,
               text |-> IF in.textKind = "string" THEN Trim(in.text) ELSE <<>>]
    ELSE [ok |-> TRUE, msg |-> <<>>,
          text |-> IF in.jsonOk /\ in.textKind = "string" THEN Trim(in.text) ELSE <<>>]

NoInput ==
    [form |-> FALSE, file |-> "none", pdfReadable |-> FALSE, pdfText |-> <<>>,
     jsonOk |-> FALSE, textKind |-> "absent", text |-> <<>>]

NewRequest ==
    [pc |-> "absent", phase |-> "NONE", input |-> NoInput, inputText |-> <<>>,
     chunks |-> <<>>, idx |-> 0, partialResults |-> <<>>, stage |-> "none",
     res |-> NoRes, merged |-> NoRes, finalJson |-> JNull,
     attempt |-> 0, delay |-> 0, lastErr |-> NoErr,
     waits |-> <<>>, invocations |-> 0, failures |-> 0, calls |-> 0, skips |-> 0,
     processed |-> <<>>, thrown |-> NoErr, fatal |-> NoErr, fatalCalls |-> 0, response |-> NoResponse]

\* Besides the locals of the code a request carries counters that only record
\* what happened: waits (the delays slept in the current runWithBackoff call),
\* invocations and failures (runner.run calls of the current runWithBackoff
\* call, and how many of them rejected), calls (runner.run calls of the
\* request), skips (chunks whose output was not extractable), processed (the
\* numbers of the chunks whose loop iteration ended, in that order), thrown (the error runWithBackoff threw to POST), fatal (the
\* first Oracle error that was not retryable) and fatalCalls (calls at that time).

\* entering runWithBackoff for the merge call (lines 483-490)
StartMerge(q) == FreshBackoff([q EXCEPT !.stage = "merge", !.pc = "call", !.phase = "MERGING"])

\* the for-loop header of the chunk loop: i < chunks.length
EnterChunkOrMerge(q) ==
    IF q.idx < Len(q.chunks)
    THEN FreshBackoff([q EXCEPT !.stage = "analysis", !.pc = "call", !.phase = "ANALYZING"])
    ELSE StartMerge(q)

\* i++
NextIndexSkip(i) == i + 2
NextIndex(i) == i + 1

\* lines 472-480 without the try/catch around extractJson (as in agent-avv/route.ts)
AfterChunkNoCatch(q, res) ==
    LET e == extractJson(res.finalOutput)
    IN  IF HasFinalOutput(res) /\ ~e.ok
        THEN Fail([q EXCEPT !.res = res, !.skips = @ + 1], e.msg)
        ELSE EnterChunkOrMerge(
                 [q EXCEPT !.res = res, !.idx = NextIndex(@),
                           !.processed = Append(@, q.idx + 1),
                           !.partialResults = IF HasFinalOutput(res) THEN Append(@, e.val) ELSE @])

\* lines 472-480: the rest of one loop iteration once runWithBackoff returned res
AfterChunk(q, res) ==
    LET e == extractJson(res.finalOutput)
        usable == HasFinalOutput(res) /\ e.ok
    IN  EnterChunkOrMerge(
            [q EXCEPT !.res = res, !.idx = NextIndex(@),
                      !.processed = Append(@, q.idx + 1),
                      !.partialResults = IF usable THEN Append(@, e.val) ELSE @,
                      !.skips = IF HasFinalOutput(res) /\ ~e.ok THEN @ + 1 ELSE @])

\* line 491: if (!merged?.finalOutput) throw ...
AfterMerge(q, res) ==
    IF HasFinalOutput(res)
    THEN [q EXCEPT !.merged = res, !.pc = "extract", !.phase = "EXTRACTING"]
    ELSE Fail([q EXCEPT !.merged = res], MsgNoMergeOutput)

\* line 494: const finalJson = extractJson(merged.finalOutput)
ExtractMergedSkipping(q) ==
    LET e == extractJson(q.merged.finalOutput)
    IN  [q EXCEPT !.finalJson = IF e.ok THEN e.val ELSE JObj(<<>>, <<>>),
                  !.pc = "reconcile", !.phase = "RECONCILING"]
ExtractMerged(q) ==
    LET e == extractJson(q.merged.finalOutput)
    IN  IF e.ok THEN [q EXCEPT !.finalJson = e.val, !.pc = "reconcile", !.phase = "RECONCILING"]
        ELSE Fail(q, e.msg)

\* lines 495-497
ReconcileAndRespond(q) ==
    LET rr == reconcileAndScore(q.finalJson)
    IN  IF rr.ok THEN [q EXCEPT !.pc = "done", !.phase = "SCORED", !.response = Response200(rr.val)]
        ELSE Fail(q, MsgReconcileTypeError)

\* the catch block of runWithBackoff for the error err
AfterThrow(q, err) ==
    LET q1 == [q EXCEPT !.lastErr = err, !.failures = @ + 1,
                        !.fatal = IF ~q.fatal.set /\ ~isRateLimit(err) THEN err ELSE @,
                        !.fatalCalls = IF ~q.fatal.set /\ ~isRateLimit(err) THEN q.calls ELSE @]
    IN  IF ShouldRethrow(isRateLimit(err), q.attempt)
        THEN Fail([q1 EXCEPT !.thrown = err], err.message)
        ELSE [q1 EXCEPT !.pc = "sleep", !.waits = Append(@, q.delay)]

\* the loop condition of runWithBackoff: attempt <= maxRetries
LoopContinues(attempt) == attempt <= maxRetries

\* after the sleep: delay *= 2; attempt++; next iteration, or the throw behind the loop
AfterSleep(q) ==
    LET q1 == [q EXCEPT !.delay = NextDelay(@), !.attempt = @ + 1]
    IN  IF LoopContinues(q1.attempt) THEN [q1 EXCEPT !.pc = "call"]
        ELSE Fail(q1, MsgBackoffFailed)

\* the input of the runner.run call the request is about to make
CallOfShared(r, q) ==
    [req |-> r, stage |-> q.stage, idx |-> q.idx, attempt |-> q.attempt,
     text |-> IF q.stage = "analysis" THEN q.chunks[q.idx + 1] ELSE <<>>,
     parts |-> IF q.stage = "merge"
               THEN q.partialResults
                    \o (IF DOMAIN req = {r} THEN <<>>
                        ELSE req[CHOOSE o \in DOMAIN req : o # r].partialResults)
               ELSE <<>>]
CallOf(r, q) ==
    [req |-> r, stage |-> q.stage, idx |-> q.idx, attempt |-> q.attempt,
     text |-> IF q.stage = "analysis" THEN q.chunks[q.idx + 1] ELSE <<>>,
     parts |-> IF q.stage = "merge" THEN q.partialResults ELSE <<>>]

\* ------------------------------------------------------------------ the environment

Requests == {1}

RECURSIVE ParagraphText(_)
\* n paragraphs "a", separated by blank lines
ParagraphText(n) == IF n <= 1 THEN <<"a">> ELSE <<"a", NL, NL>> \o ParagraphText(n - 1)

RequestTexts == {<<>>, <<" ">>} \cup {ParagraphText(n) : n \in 1..(ReqMaxChunks + 1)}

PdfTexts ==
    {<<>>, <<" ", NL>>, <<Nul>>, <<"a">>, <<"a", "\r", "\r", "\r", "b", " ", "\t", "c">>}

FormInput(file, readable, pdfText, kind, text) ==
    [form |-> TRUE, file |-> file, pdfReadable |-> readable, pdfText |-> pdfText,
     jsonOk |-> FALSE, textKind |-> kind, text |-> text]
JsonInput(ok, kind, text) ==
    [form |-> FALSE, file |-> "none", pdfReadable |-> FALSE, pdfText |-> <<>>,
     jsonOk |-> ok, textKind |-> kind, text |-> text]

RequestInputs ==
    {FormInput("none", FALSE, <<>>, "absent", <<>>),
     FormInput("other", FALSE, <<>>, "string", <<"a">>),
     FormInput("other", FALSE, <<>>, "other", <<>>),
     FormInput("pdf", FALSE, <<>>, "string", <<"a">>),
     JsonInput(FALSE, "absent", <<>>),
     JsonInput(TRUE, "absent", <<>>),
     JsonInput(TRUE, "other", <<>>)}
    \cup {FormInput("none", FALSE, <<>>, "string", t) : t \in RequestTexts}
    \cup {FormInput("pdf", TRUE, t, "absent", <<>>) : t \in PdfTexts}
    \cup {JsonInput(TRUE, "string", t) : t \in {<<>>, <<" ", " ">>, <<" ", "a", NL>>}}

\* what the Oracle may answer: no finalOutput, an empty one, prose, an object,
\* braces around no JSON, and an object whose action list holds null
OracleOutputs ==
    {<<>>, <<"x">>, <<"{", "}">>, <<"{", "x", "}">>,
     <<"x", "{", "\"", "actions", "\"", ":", "[", "n", "u", "l", "l", "]", "}">>}
OracleResults == {Res(FALSE, <<>>)} \cup {Res(TRUE, o) : o \in OracleOutputs}

OracleErrors ==
    {Err(<<"4", "2", "9", " ", "T", "P", "M">>, ""),
     Err(<<"x">>, "too_many_requests"),
     Err(<<"b", "o", "o", "m">>, ""),
     Err(<<>>, "")}

\* ------------------------------------------------------------------ actions

vars == <<req, inflight, cin, cout, cpc, rin, rout, rpc, nin, nout, npc, xin, xout, xpc,
          page, uploads>>
cvars == <<cin, cout, cpc>>
rvars == <<rin, rout, rpc>>
nvars == <<nin, nout, npc>>
xvars == <<xin, xout, xpc>>
pvars == <<page, uploads>>

\* the parts of the state a specification does not use stay as they are here
RequestsAbsent == req = [r \in Requests |-> NewRequest] /\ inflight = {}
ChunkIdle ==
    /\ cin = [text |-> <<>>, targetTokens |-> 0, hardMaxTokens |-> 1, maxChunks |-> 0]
    /\ cout = <<>>
    /\ cpc = "idle"
ReconIdle == rin = JNull /\ rout = [ok |-> FALSE, val |-> JNull] /\ rpc = "idle"
NormIdle == nin = JNull /\ nout = JNull /\ npc = "idle"
ExtractIdle ==
    /\ xin = [prose |-> <<>>, object |-> <<>>, commentary |-> <<>>]
    /\ xout = [ok |-> FALSE, val |-> JNull, msg |-> <<>>]
    /\ xpc = "idle"
\* useState(null), useState(false), useState(null), useState(0) (page.tsx 39-43)
PageMounted ==
    /\ page = [data |-> JNull, loading |-> FALSE, err |-> JNull, inputKey |-> 0]
    /\ uploads = <<>>

\* lines 442-457: read the form or the JSON body; no text ends the request
ReadInput(r, in) ==
    /\ req[r].pc = "absent"
    /\ LET t == ReadInputText(in)
           q == [req[r] EXCEPT !.input = in]
       IN  req' = [req EXCEPT ![r] =
                      IF ~t.ok THEN Fail(q, t.msg)
                      ELSE IF IsEmptyInput(t.text)
                      THEN [q EXCEPT !.pc = "done", !.phase = "FAILED", !.response = Response400]
                      ELSE [q EXCEPT !.pc = "chunk", !.phase = "CHUNKING", !.inputText = t.text]]
    /\ UNCHANGED <<inflight, cvars, rvars, nvars, xvars, pvars>>

\* lines 460-466: chunk the text, create the accumulator, enter the loop
Chunking(r) ==
    /\ req[r].pc = "chunk"
    /\ LET q == req[r]
           chunks == chunkTextDeterministic(q.inputText, ReqTargetTokens, ReqHardMaxTokens,
                                            ReqMaxChunks)
       IN  req' = [req EXCEPT ![r] =
                      EnterChunkOrMerge([q EXCEPT !.chunks = chunks, !.idx = 0,
                                                  !.partialResults = <<>>])]
    /\ UNCHANGED <<inflight, cvars, rvars, nvars, xvars, pvars>>

\* fn(): runner.run(avvCheckAgent, ...) is issued
CallOracle(r) ==
    /\ req[r].pc = "call"
    /\ inflight' = inflight \cup {CallOf(r, req[r])}
    /\ req' = [req EXCEPT ![r].pc = "await", ![r].res = NoRes,
                           ![r].calls = @ + 1, ![r].invocations = @ + 1]
    /\ UNCHANGED <<cvars, rvars, nvars, xvars, pvars>>

\* the awaited call resolves with res
OracleReturn(r, res) ==
    /\ req[r].pc = "await"
    /\ \E c \in inflight :
          /\ c.req = r
          /\ inflight' = inflight \ {c}
    /\ req' = [req EXCEPT ![r] = IF @.stage = "analysis" THEN AfterChunk(@, res)
                                  ELSE AfterMerge(@, res)]
    /\ UNCHANGED <<cvars, rvars, nvars, xvars, pvars>>

\* the awaited call rejects with err
OracleThrow(r, err) ==
    /\ req[r].pc = "await"
    /\ \E c \in inflight :
          /\ c.req = r
          /\ inflight' = inflight \ {c}
    /\ req' = [req EXCEPT ![r] = AfterThrow(@, err)]
    /\ UNCHANGED <<cvars, rvars, nvars, xvars, pvars>>

\* the setTimeout of the backoff fires
WakeUp(r) ==
    /\ req[r].pc = "sleep"
    /\ req' = [req EXCEPT ![r] = AfterSleep(@)]
    /\ UNCHANGED <<inflight, cvars, rvars, nvars, xvars, pvars>>

Extract(r) ==
    /\ req[r].pc = "extract"
    /\ req' = [req EXCEPT ![r] = ExtractMerged(@)]
    /\ UNCHANGED <<inflight, cvars, rvars, nvars, xvars, pvars>>

Reconcile(r) ==
    /\ req[r].pc = "reconcile"
    /\ req' = [req EXCEPT ![r] = ReconcileAndRespond(@)]
    /\ UNCHANGED <<inflight, cvars, rvars, nvars, xvars, pvars>>

Init ==
    /\ req = [r \in Requests |-> NewRequest]
    /\ inflight = {}
    /\ cin = [text |-> <<>>, targetTokens |-> 0, hardMaxTokens |-> 1, maxChunks |-> 0]
    /\ cout = <<>>
    /\ cpc = "idle"
    /\ rin = JNull
    /\ rout = [ok |-> FALSE, val |-> JNull]
    /\ rpc = "idle"
    /\ NormIdle /\ ExtractIdle /\ PageMounted

Next ==
    \E r \in Requests :
        \/ \E in \in RequestInputs : ReadInput(r, in)
        \/ Chunking(r)
        \/ CallOracle(r)
        \/ \E res \in OracleResults : OracleReturn(r, res)
        \/ \E err \in OracleErrors : OracleThrow(r, err)
        \/ WakeUp(r)
        \/ Extract(r)
        \/ Reconcile(r)

Spec == Init /\ [][Next]_vars

\* every step of a request that has arrived is eventually taken: the handler
\* runs on, each Oracle call settles, each timer fires.  A synchronous step of
\* the handler is enabled exactly when the request stands at it, so its weak
\* fairness, []<>~ENABLED <<A>>_vars \/ []<><<A>>_vars, is written with the
\* position of the request for the enabling condition.
Fairness ==
    \A r \in Requests :
        /\ ([]<>(req[r].pc # "chunk") \/ []<><<Chunking(r)>>_vars)
        /\ WF_vars(CallOracle(r))
        /\ WF_vars((\E res \in OracleResults : OracleReturn(r, res))
                   \/ (\E err \in OracleErrors : OracleThrow(r, err)))
        /\ WF_vars(WakeUp(r))
        /\ ([]<>(req[r].pc # "extract") \/ []<><<Extract(r)>>_vars)
        /\ ([]<>(req[r].pc # "reconcile") \/ []<><<Reconcile(r)>>_vars)

LiveSpec == Init /\ [][Next]_vars /\ Fairness

\* ------------------------------------------------------------------ claims on the request

CallsInFlight(r) == {c \in inflight : c.req = r}

\* C1: when the output of a chunk has a finalOutput that extractJson cannot
\* extract, that step leaves partialResults as it was, moves on to the next
\* chunk (or to the merge after the last one) and does not end the request.
C1_UnextractableChunkSkipped ==
    [][\A r \in Requests :
         LET q == req[r]
             q2 == req'[r]
         IN  (/\ q.pc = "await" /\ q.stage = "analysis"
              /\ HasFinalOutput(q2.res)
              /\ ~extractJson(q2.res.finalOutput).ok)
             => /\ q2.partialResults = q.partialResults
                /\ q2.idx = q.idx + 1
                /\ q2.pc = "call"
                /\ q2.stage = (IF q2.idx < Len(q2.chunks) THEN "analysis" ELSE "merge")
                /\ q2.response = NoResponse]_vars

\* a request that skipped a chunk, kept another one and ended with a success record
C1_Witness ==
    \E r \in Requests :
        /\ req[r].skips >= 1
        /\ Len(req[r].partialResults) >= 1
        /\ req[r].pc = "done"
        /\ req[r].response.status = 200

\* C2: a request that reaches the merge with an empty partialResults never
\* ends with a success record.
C2_NoUsableResultsFails ==
    \A r \in Requests :
        (req[r].stage = "merge" /\ req[r].partialResults = <<>> /\ req[r].pc = "done")
            => req[r].response.status # 200

\* C3: one runWithBackoff call invokes the Oracle at most maxRetries + 1 = 4
\* times; an attempt after the first is made only after a rate-limit failure;
\* and when the 4th attempt fails too, its error is thrown to POST.
C3_AtMostFourAttempts ==
    \A r \in Requests :
        LET q == req[r]
        IN  /\ q.invocations <= 4
            /\ q.invocations <= maxRetries + 1
            /\ (q.pc = "sleep" \/ (q.pc \in {"call", "await"} /\ q.attempt >= 1))
                   => (q.lastErr.set /\ isRateLimit(q.lastErr))
            /\ q.failures = maxRetries + 1
                   => /\ q.pc = "done"
                      /\ q.thrown = q.lastErr
                      /\ q.response = Response500(q.lastErr.message)

\* the 4th attempt of one call failed with a rate-limit error
C3_Witness ==
    \E r \in Requests :
        /\ req[r].failures = 4
        /\ isRateLimit(req[r].lastErr)
        /\ req[r].pc = "done"

\* C4: once an Oracle call failed with an error that is not retryable, the
\* request is over: no call is in flight or made later, and the response is the
\* 500 response with that error's message.
C4_FatalErrorAborts ==
    \A r \in Requests :
        LET q == req[r]
        IN  q.fatal.set
                => /\ q.pc = "done"
                   /\ q.response = Response500(q.fatal.message)
                   /\ q.calls = q.fatalCalls
                   /\ CallsInFlight(r) = {}

\* a fatal error in the first chunk of several, after a retry
C4_Witness ==
    \E r \in Requests :
        /\ req[r].fatal.set
        /\ req[r].stage = "analysis"
        /\ req[r].idx = 0
        /\ Len(req[r].chunks) >= 2
        /\ req[r].attempt >= 1

\* C5: the waits of one runWithBackoff call are 800, 1600, 3200 in this order
\* (each the double of the one before), at most 3 of them, none before the
\* first attempt and none after the last.
C5_BackoffDelays ==
    \A r \in Requests :
        LET q == req[r]
            w == q.waits
        IN  /\ Len(w) <= 3
            /\ Len(w) >= 1 => w[1] = 800
            /\ \A k \in 2..Len(w) : w[k] = 2 * w[k - 1] /\ w[k] > w[k - 1]
            /\ \A k \in 1..Len(w) : w[k] <= 3200
            /\ Len(w) <= q.invocations
            /\ q.pc = "sleep" => q.invocations <= maxRetries
            /\ (q.pc \in {"done", "extract", "reconcile"} /\ q.invocations >= 1)
                   => Len(w) < q.invocations

\* three waits were slept and the call still failed
C5_Witness ==
    \E r \in Requests :
        /\ req[r].waits = <<800, 1600, 3200>>
        /\ req[r].pc = "done"

PhaseSteps ==
    {<<"NONE", "CHUNKING">>, <<"NONE", "FAILED">>,
     <<"CHUNKING", "ANALYZING">>,
     <<"ANALYZING", "ANALYZING">>, <<"ANALYZING", "MERGING">>, <<"ANALYZING", "FAILED">>,
     <<"MERGING", "EXTRACTING">>, <<"MERGING", "FAILED">>,
     <<"EXTRACTING", "RECONCILING">>, <<"EXTRACTING", "FAILED">>,
     <<"RECONCILING", "SCORED">>, <<"RECONCILING", "FAILED">>}

\* C6: a request has at most one Oracle call in flight, which is the call of
\* its current chunk (or the merge call); the call for a chunk is made when
\* exactly the chunks before it have been processed, the merge call when all
\* chunks have been; reconciliation starts from the extracted merge output; and
\* the phase moves only along CHUNKING, ANALYZING, MERGING, EXTRACTING,
\* RECONCILING, SCORED (or to FAILED).
C6_OneCallAtATimeInOrder ==
    /\ [](\A r \in Requests :
            LET q == req[r]
            IN  /\ Cardinality(CallsInFlight(r)) <= 1
                /\ \A c \in CallsInFlight(r) :
                       q.pc = "await" /\ c.stage = q.stage /\ c.idx = q.idx
                /\ (q.stage = "analysis" /\ q.pc \in {"call", "await", "sleep"})
                       => /\ q.idx < Len(q.chunks)
                          /\ q.processed = [k \in 1..q.idx |-> k]
                /\ q.stage = "merge" => q.processed = [k \in 1..Len(q.chunks) |-> k]
                /\ q.phase \in {"RECONCILING", "SCORED"}
                       => /\ extractJson(q.merged.finalOutput).ok
                          /\ q.finalJson = extractJson(q.merged.finalOutput).val)
    /\ [][\A r \in Requests :
            /\ req'[r].phase # req[r].phase => <<req[r].phase, req'[r].phase>> \in PhaseSteps
            /\ req'[r].calls # req[r].calls => CallsInFlight(r) = {}]_vars

\* a request of several chunks, with a retry, that ended with a success record
C6_Witness ==
    \E r \in Requests :
        /\ req[r].phase = "SCORED"
        /\ Len(req[r].chunks) >= 2
        /\ req[r].calls >= Len(req[r].chunks) + 2

\* the request carries no usable text: no text field, an empty or blank one, or
\* a PDF that is unreadable or whose text is empty
NoUsableText(in) ==
    IF in.form /\ in.file = "pdf"
    THEN ~in.pdfReadable \/ Trim(RemoveChar(in.pdfText, Nul)) = <<>>
    ELSE \/ ~in.form /\ ~in.jsonOk
         \/ in.textKind = "absent"
         \/ in.textKind = "string" /\ Trim(in.text) = <<>>

\* C7: a request without usable text ends with an error response, and no
\* Oracle call is made for it.
C7_NoTextNoOracleCall ==
    \A r \in Requests :
        LET q == req[r]
        IN  (q.pc # "absent" /\ NoUsableText(q.input))
                => /\ q.pc = "done"
                   /\ q.response.status \in {400, 500}
                   /\ q.calls = 0
                   /\ CallsInFlight(r) = {}

\* a PDF whose text is made of NUL characters only is answered with 400
C7_Witness ==
    \E r \in Requests :
        /\ req[r].input.file = "pdf"
        /\ req[r].input.pdfText = <<Nul>>
        /\ req[r].response.status = 400

\* C8: a merge call that returned no final output, or one that extractJson
\* cannot extract, ends the request with the 500 response; it is not skipped
\* over and no success record is returned.
C8_MergeFailureFatal ==
    \A r \in Requests :
        LET q == req[r]
        IN  (q.merged.set /\ (~HasFinalOutput(q.merged) \/ ~extractJson(q.merged.finalOutput).ok))
                => /\ q.pc \in {"extract", "done"}
                   /\ q.phase \notin {"RECONCILING", "SCORED"}
                   /\ q.response.status # 200
                   /\ q.pc = "done" => q.response.status = 500

\* partial records were there, the merge output was not extractable, the request failed
C8_Witness ==
    \E r \in Requests :
        /\ HasFinalOutput(req[r].merged)
        /\ ~extractJson(req[r].merged.finalOutput).ok
        /\ Len(req[r].partialResults) >= 1
        /\ req[r].pc = "done"

\* C9: a request makes at most (maxChunks + 1) * (maxRetries + 1) Oracle calls,
\* and, with every Oracle call settling and every timer firing, a request that
\* has arrived reaches its response.
C9_BoundedCallsAndTermination ==
    /\ [](\A r \in Requests :
            /\ Len(req[r].chunks) <= ReqMaxChunks
            /\ req[r].calls <= (ReqMaxChunks + 1) * (maxRetries + 1))
    /\ \A r \in Requests : (req[r].pc # "absent") ~> (req[r].pc = "done")

\* the bound is reached: every chunk call and the merge call took 4 attempts
C9_Witness ==
    \E r \in Requests :
        /\ req[r].calls = (ReqMaxChunks + 1) * (maxRetries + 1)
        /\ req[r].pc = "done"



\* ------------------------------------------------------------------ chunker harness

ChunkAlphabet == {"a", NL}

RECURSIVE StringsUpTo(_, _)
StringsUpTo(alphabet, n) ==
    IF n = 0 THEN {<<>>}
    ELSE LET shorter == StringsUpTo(alphabet, n - 1)
         IN  shorter \cup {Append(s, c) : s \in {x \in shorter : Len(x) = n - 1}, c \in alphabet}

ChunkInputs ==
    [text : StringsUpTo(ChunkAlphabet, MaxTextLen),
     targetTokens : 0..MaxTarget,
     hardMaxTokens : 1..MaxHard,
     maxChunks : 0..MaxCap]

ChunkInit ==
    /\ req = [r \in Requests |-> NewRequest]
    /\ inflight = {}
    /\ cin \in ChunkInputs
    /\ cout = <<>>
    /\ cpc = "in"
    /\ rin = JNull
    /\ rout = [ok |-> FALSE, val |-> JNull]
    /\ rpc = "idle"
    /\ NormIdle /\ ExtractIdle /\ PageMounted

RunChunker ==
    /\ cpc = "in"
    /\ cout' = chunkTextDeterministic(cin.text, cin.targetTokens, cin.hardMaxTokens, cin.maxChunks)
    /\ cpc' = "out"
    /\ UNCHANGED <<cin, req, inflight, rvars, nvars, xvars, pvars>>

ChunkNext == RunChunker

ChunkSpec == ChunkInit /\ [][ChunkNext]_vars

\* C10: chunkTextDeterministic never returns more than maxChunks chunks.
C10_AtMostMaxChunks ==
    cpc = "out" => Len(cout) <= cin.maxChunks

\* the cap cut something off: more bodies were built than chunks returned
C10_Witness ==
    /\ cpc = "out"
    /\ Len(cout) = cin.maxChunks
    /\ cin.maxChunks >= 2
    /\ Len(ChunkBodies(cin.text, cin.targetTokens, cin.hardMaxTokens, cin.maxChunks)) > cin.maxChunks

\* C11: no chunk returned by chunkTextDeterministic has an estimated token size
\* above hardMaxTokens.
C11_ChunksWithinHardMax ==
    cpc = "out" => \A i \in 1..Len(cout) : estimateTokens(cout[i]) <= cin.hardMaxTokens

\* BLOCK i/n and the blank line after it
HeaderOf(i, n) == <<"B", "L", "O", "C", "K", " ">> \o Digits(i) \o <<"/">> \o Digits(n) \o <<NL, NL>>

IsPrefix(a, b) == Len(a) <= Len(b) /\ SubSeq(b, 1, Len(a)) = a

\* the chunk without its header line
BodyOf(chunk, i, n) == SubSeq(chunk, Len(HeaderOf(i, n)) + 1, Len(chunk))

RECURSIVE TrimEach(_)
TrimEach(parts) ==
    IF parts = <<>> THEN <<>> ELSE <<Trim(Head(parts))>> \o TrimEach(Tail(parts))

RECURSIVE ExpectedPieces(_, _)
\* the paragraph units of the input in input order, a unit above hardMaxTokens
\* replaced by its character slices
ExpectedPieces(units, hardMaxTokens) ==
    IF units = <<>> THEN <<>>
    ELSE (IF estimateTokens(Head(units)) + 2 > hardMaxTokens
          THEN TrimEach(hardSplitByChars(Head(units), hardMaxTokens * 4))
          ELSE <<Head(units)>>)
         \o ExpectedPieces(Tail(units), hardMaxTokens)

RECURSIVE PiecesOf(_, _, _)
\* the paragraphs found in the chunks i..n of the output, in output order
PiecesOf(out, i, n) ==
    IF i > n THEN <<>>
    ELSE SplitParagraphs(BodyOf(out[i], i, n)) \o PiecesOf(out, i + 1, n)

\* the number of chunks the text gives when no cap cuts it
ChunksNeeded(in) ==
    Len(ChunkBodies(in.text, in.targetTokens, in.hardMaxTokens, Len(in.text) + 1))

\* C12 as stated: for every input the chunks hold every paragraph unit of the
\* text exactly once and in input order.
C12_ChunksCoverInput ==
    cpc = "out" =>
        PiecesOf(cout, 1, Len(cout)) = ExpectedPieces(Units(cin.text), cin.hardMaxTokens)

\* C12, amended: the chunks hold the paragraph units of the text in input
\* order, each once, from the first unit on; all of them when the text needs no
\* more than maxChunks chunks, and otherwise a proper prefix (the cap truncates
\* the rest of the text).
C12_ChunksCoverUpToCap ==
    cpc = "out" =>
        LET got == PiecesOf(cout, 1, Len(cout))
            all == ExpectedPieces(Units(cin.text), cin.hardMaxTokens)
        IN  /\ IsPrefix(got, all)
            /\ ChunksNeeded(cin) <= cin.maxChunks => got = all
            /\ ChunksNeeded(cin) > cin.maxChunks => got # all

\* three units, two of them packed into one chunk, nothing cut
C12_Witness ==
    /\ cpc = "out"
    /\ Len(Units(cin.text)) = 3
    /\ Len(cout) = 2
    /\ ChunksNeeded(cin) = 2
    /\ PiecesOf(cout, 1, 2) = Units(cin.text)

\* C13: chunk i of the n returned chunks starts with the header BLOCK i/n,
\* also when the cap cut the list.
C13_HeaderIndexAndTotal ==
    cpc = "out" =>
        \A i \in 1..Len(cout) : IsPrefix(HeaderOf(i, Len(cout)), cout[i])

\* three chunks were built, two returned, the second is headed BLOCK 2/2
C13_Witness ==
    /\ cpc = "out"
    /\ Len(cout) = 2
    /\ ChunksNeeded(cin) >= 3
    /\ IsPrefix(HeaderOf(2, 2), cout[2])

\* ------------------------------------------------------------------ reconcile harness

\* an object from its members <<key, value>>, in this order
ObjOf(members) ==
    JObj([i \in 1..Len(members) |-> members[i][1]], [i \in 1..Len(members) |-> members[i][2]])

Finding(status) == ObjOf(<<<<K("status"), status>>>>)

\* a finding with three evidence entries: a quote with runs of whitespace and
\* page 1, a quote that is no string and page 0, an entry that is null
FindingWithEvidence(status) ==
    ObjOf(<<<<K("status"), status>>,
            <<K("evidence"),
              JArr(<<ObjOf(<<<<K("quote"), JStr(<<"a", " ", NL, "b">>)>>, <<K("page"), JNum(1)>>>>),
                     ObjOf(<<<<K("quote"), JNum(7)>>, <<K("page"), JNum(0)>>>>),
                     JNull>>)>>>>)

\* a quote one character above the limit of trimQuote
LongQuote == [i \in 1..(QuoteMax + 1) |-> "a"]
\* a finding whose evidence has a quote above the limit with the page 2.5, a
\* quote with the page -1 and a third entry
FindingWithLongEvidence(status) ==
    ObjOf(<<<<K("status"), status>>,
            <<K("evidence"),
              JArr(<<ObjOf(<<<<K("quote"), JStr(LongQuote)>>, <<K("page"), JHalves(5)>>>>),
                     ObjOf(<<<<K("quote"), JStr(<<"b">>)>>, <<K("page"), JNum(0 - 1)>>>>),
                     ObjOf(<<<<K("quote"), JStr(<<"c">>)>>, <<K("page"), JNum(2)>>>>)>>)>>>>)

\* all 8 core categories with the same status
AllCore(status) == ObjOf([i \in 1..Len(WeightKeys) |-> <<WeightKeys[i], Finding(JStr(status))>>])

ActionItem(category, severity, text) ==
    ObjOf(<<<<K("category"), JStr(K(category))>>, <<K("severity"), JStr(severity)>>,
            <<K("action"), JStr(K(text))>>>>)

\* raw.article_28_analysis: absent, scenarios 1 to 3 of the specification, other
\* spellings, a status that is a number, null or absent, an unknown key
CoreChoices ==
    {<<>>,
     <<<<K("article_28_analysis"), AllCore(Met)>>>>,
     <<<<K("article_28_analysis"), AllCore(Missing)>>>>,
     <<<<K("article_28_analysis"),
         ObjOf(<<<<K("instructions_only"), FindingWithEvidence(JStr(Met))>>,
                 <<K("security_TOMs"), Finding(JStr(Partial))>>>>)>>>>,
     <<<<K("article_28_analysis"),
         ObjOf(<<<<K("instructions_only"), Finding(JStr(Partial))>>,
                 <<K("confidentiality"), Finding(JStr(<<"M", "E", "T">>))>>,
                 <<K("audit_rights"), Finding(JStr(Teilweise))>>,
                 <<K("foo"), Finding(JStr(Met))>>>>)>>>>,
     <<<<K("article_28_analysis"),
         ObjOf(<<<<K("confidentiality"), Finding(JNum(1))>>>>)>>>>,
     <<<<K("article_28_analysis"),
         ObjOf(<<<<K("security_TOMs"), FindingWithLongEvidence(JStr(Met))>>,
                 <<K("audit_rights"), Finding(JStr(Missing))>>>>)>>>>,
     <<<<K("article_28_analysis"),
         ObjOf(<<<<K("confidentiality"), Finding(JNull)>>,
                 <<K("subprocessors"), ObjOf(<<>>)>>,
                 <<K("breach_support"), JStr(Met)>>>>)>>>>}

\* raw.additional_clauses
ExtraChoices ==
    {<<>>,
     <<<<K("additional_clauses"),
         ObjOf(<<<<K("international_transfers"), Finding(JStr(Met))>>,
                 <<K("liability_cap"), Finding(JStr(Met))>>,
                 <<K("jurisdiction"), Finding(JStr(Met))>>>>)>>>>,
     <<<<K("additional_clauses"),
         ObjOf(<<<<K("liability_cap"), Finding(JStr(NotFound))>>>>)>>>>,
     <<<<K("additional_clauses"),
         ObjOf(<<<<K("international_transfers"), Finding(JStr(Missing))>>,
                 <<K("liability_cap"), Finding(JStr(Missing))>>,
                 <<K("jurisdiction"), Finding(JStr(Present))>>>>)>>>>,
     <<<<K("additional_clauses"),
         ObjOf(<<<<K("international_transfers"), Finding(JStr(Partial))>>,
                 <<K("liability_cap"), Finding(JStr(Present))>>>>)>>>>}

\* raw.findings: a third source, which overrides the two before it
FindingsChoices ==
    {<<>>,
     <<<<K("findings"),
         ObjOf(<<<<K("instructions_only"), Finding(JStr(Missing))>>,
                 <<K("international_transfers"), Finding(JStr(Present))>>>>)>>>>}

\* raw.recommended_actions and raw.actions
ActionChoices ==
    {<<>>,
     <<<<K("recommended_actions"), JArr(<<ActionItem("security_TOMs", High, "Fix")>>)>>>>,
     <<<<K("recommended_actions"),
         JArr(<<ActionItem("subprocessors", Medium, "List"),
                ObjOf(<<<<K("key"), JStr(K("audit_rights"))>>,
                        <<K("recommendation"), JStr(K("Allow"))>>>>)>>)>>,
       <<K("actions"), JArr(<<ActionItem("deletion_return", <<"l", "o", "w">>, "Delete"),
                              ActionItem("breach_support", Medium, "Notify")>>)>>>>,
     <<<<K("actions"),
         JArr(<<ObjOf(<<<<K("severity"), JStr(High)>>, <<K("action"), JStr(K("Fix"))>>>>)>>)>>>>,
     <<<<K("actions"), JArr(<<JNull>>)>>>>,
     <<<<K("recommended_actions"), JStr(K("none"))>>>>,
     <<<<K("recommended_actions"),
         JArr(<<ObjOf(<<<<K("action"), JStr(<<"H", "a", "f", "t", "u", "n", "g">>)>>>>),
                ObjOf(<<<<K("action"), JStr(<<"a">>)>>, <<K("issue"), JStr(<<"A", "r", "t", ".", " ", "3", "2">>)>>>>)>>)>>>>}

\* raw.risk_score and raw.compliance_score, the score figures of the Oracle
RiskChoices ==
    {<<>>,
     <<<<K("risk_score"), ObjOf(<<<<K("overall"), JNum(40)>>, <<K("rationale"), JStr(K("r"))>>>>)>>>>,
     <<<<K("risk_score"), ObjOf(<<<<K("overall"), JStr(<<"4", "0">>)>>>>)>>>>,
     <<<<K("risk_score"), ObjOf(<<<<K("overall"), JNum(150)>>>>)>>>>}
ComplianceChoices ==
    {<<>>,
     <<<<K("compliance_score"), ObjOf(<<<<K("overall"), JNum(99)>>>>)>>>>}

\* raw.contract_metadata, raw.parties and raw.executive_summary
MetaChoices ==
    {<<>>,
     <<<<K("executive_summary"), JStr(K("s"))>>,
       <<K("contract_metadata"),
         ObjOf(<<<<K("title"), JStr(K("AVV"))>>,
                 <<K("parties"),
                   ObjOf(<<<<K("controller"), JStr(K("A"))>>, <<K("processor"), JStr(K("B"))>>,
                           <<K("processor_dpo"), JStr(K("D"))>>>>)>>>>)>>>>,
     <<<<K("parties"),
         JArr(<<ObjOf(<<<<K("role"), JStr(K("controller"))>>, <<K("name"), JStr(K("A"))>>>>),
                ObjOf(<<<<K("role"), JStr(K("Datenschutzbeauftragter"))>>,
                        <<K("name"), JStr(K("D"))>>>>)>>)>>>>}

RawRecords ==
    {ObjOf(a \o e \o f \o acts \o risk \o comp \o meta) :
        a \in CoreChoices, e \in ExtraChoices, f \in FindingsChoices, acts \in ActionChoices,
        risk \in RiskChoices, comp \in ComplianceChoices, meta \in MetaChoices}

ReconInit ==
    /\ req = [r \in Requests |-> NewRequest]
    /\ inflight = {}
    /\ cin = [text |-> <<>>, targetTokens |-> 0, hardMaxTokens |-> 1, maxChunks |-> 0]
    /\ cout = <<>>
    /\ cpc = "idle"
    /\ rin \in RawRecords
    /\ rout = [ok |-> FALSE, val |-> JNull]
    /\ rpc = "in"
    /\ NormIdle /\ ExtractIdle /\ PageMounted

RunReconcile ==
    /\ rpc = "in"
    /\ rout' = reconcileAndScore(rin)
    /\ rpc' = "out"
    /\ UNCHANGED <<rin, req, inflight, cvars, nvars, xvars, pvars>>

ReconNext == RunReconcile

ReconSpec == ReconInit /\ [][ReconNext]_vars

\* ------------------------------------------------------------------ claims on reconcileAndScore

\* the record reconcileAndScore returned, and parts of it
RecOut == rout.val
StatusIn(rec, section, key) == Get(Get(Get(rec, K(section)), key), K("status"))
ActionsIn(rec) == Get(rec, K("recommended_actions")).items
OverallIn(rec) == Get(Get(rec, K("compliance_score")), K("overall"))
DetailIn(rec, key) == Get(Get(Get(rec, K("compliance_score")), K("details")), key)

\* twice the factor of a status: met 1.0, partial 0.5, otherwise 0, in either
\* vocabulary and whatever the case
ScoreFactor2(status) ==
    IF status.t # "str" THEN 0
    ELSE IF ToLower(status.s) \in {Met, Erfuellt} THEN 2
    ELSE IF ToLower(status.s) \in {Partial, Teilweise} THEN 1
    ELSE 0

\* twice the base of the record: the sum of weight x factor over the 8 core categories
ScoreBase2(rec) ==
    SumSeq([i \in 1..Len(WeightKeys) |->
               WEIGHTS[i] * ScoreFactor2(StatusIn(rec, "article_28_analysis", WeightKeys[i]))], 1)

ScoreBonus(rec) ==
    LET intl == StatusIn(rec, "additional_clauses", K("international_transfers"))
        liab == StatusIn(rec, "additional_clauses", K("liability_cap"))
        juris == StatusIn(rec, "additional_clauses", K("jurisdiction"))
    IN  (CASE IsStr(intl, Met) -> 5 [] IsStr(intl, Present) -> 3 [] IsStr(intl, Partial) -> 2
           [] OTHER -> 0)
        + (IF IsStr(liab, Met) \/ IsStr(liab, Present) THEN 2 ELSE 0)
        + (IF IsStr(juris, Met) \/ IsStr(juris, Present) THEN 2 ELSE 0)

HighActions(rec) ==
    {i \in 1..Len(ActionsIn(rec)) : IsStr(Get(ActionsIn(rec)[i], K("severity")), High)}
MediumActions(rec) ==
    {i \in 1..Len(ActionsIn(rec)) : IsStr(Get(ActionsIn(rec)[i], K("severity")), Medium)}

ScoreCorrections(rec) ==
    LET intl == StatusIn(rec, "additional_clauses", K("international_transfers"))
        liab == StatusIn(rec, "additional_clauses", K("liability_cap"))
    IN  (IF Cardinality(HighActions(rec) \cup MediumActions(rec)) >= 3 THEN 5 ELSE 0)
        + (IF HighActions(rec) # {} THEN 5 ELSE 0)
        + (IF IsStr(liab, Missing) \/ IsStr(liab, NotFound) THEN 5 ELSE 0)
        + (IF IsStr(intl, Missing) THEN 3 ELSE 0)

\* all 8 core and all 3 supplementary categories are met, and there is no action
AllMetNoActions(rec) ==
    /\ \A i \in 1..Len(WeightKeys) : IsStr(StatusIn(rec, "article_28_analysis", WeightKeys[i]), Met)
    /\ \A k \in EXTRA_KEYS : IsStr(StatusIn(rec, "additional_clauses", k), Met)
    /\ ActionsIn(rec) = <<>>

\* C14: compliance_score.overall of a returned record is
\* clamp(round(base + bonus - corrections), 0, 100) for the findings and actions
\* of that record, an integer in 0..100, and 100 when all 11 categories are met
\* and there is no action.
C14_OverallIsClampedRoundedSum ==
    (rpc = "out" /\ rout.ok) =>
        LET overall == OverallIn(RecOut)
            sum2 == ScoreBase2(RecOut) + 2 * ScoreBonus(RecOut) - 2 * ScoreCorrections(RecOut)
            rounded == (sum2 + 1) \div 2
        IN  /\ overall.t = "num" /\ overall.s = <<>>
            /\ overall.n \in 0..100
            /\ overall.n = (IF rounded < 0 THEN 0 ELSE IF rounded > 100 THEN 100 ELSE rounded)
            /\ AllMetNoActions(RecOut) => overall.n = 100

\* scenario 1: everything met, no action, the sum of 109 is clamped to 100
C14_Witness ==
    /\ rpc = "out" /\ rout.ok
    /\ AllMetNoActions(RecOut)
    /\ ScoreBase2(RecOut) + 2 * ScoreBonus(RecOut) = 218
    /\ OverallIn(RecOut) = JNum(100)

\* the action items of the record handed in, from both of its lists
InputActions(raw) ==
    toArray(Get(raw, K("recommended_actions"))) \o toArray(Get(raw, K("actions")))
InputHasHighAction(raw) ==
    \E i \in 1..Len(InputActions(raw)) : IsStr(Get(InputActions(raw)[i], K("severity")), High)

\* the corrections due for the supplementary findings of the record
ClauseCorrections(rec) ==
    (IF \/ IsStr(StatusIn(rec, "additional_clauses", K("liability_cap")), Missing)
        \/ IsStr(StatusIn(rec, "additional_clauses", K("liability_cap")), NotFound)
     THEN 5 ELSE 0)
    + (IF IsStr(StatusIn(rec, "additional_clauses", K("international_transfers")), Missing)
       THEN 3 ELSE 0)

\* scenario 3 of the specification
ScenarioThree(rec) ==
    /\ IsStr(StatusIn(rec, "article_28_analysis", K("instructions_only")), Met)
    /\ IsStr(StatusIn(rec, "article_28_analysis", K("security_TOMs")), Partial)
    /\ ScoreBase2(rec) = 50
    /\ Len(ActionsIn(rec)) = 1 /\ HighActions(rec) = {1}
    /\ IsStr(StatusIn(rec, "additional_clauses", K("liability_cap")), NotFound)
    /\ ScoreBonus(rec) = 0

\* C15: when the record handed to reconcileAndScore holds an action item of
\* severity high, the corrections of the returned record include the 5 points
\* for high severity on top of those for the supplementary findings; in
\* scenario 3 corrections = 10 and overall = 15.
C15_HighSeverityCorrected ==
    (rpc = "out" /\ rout.ok) =>
        /\ InputHasHighAction(rin)
               => DetailIn(RecOut, K("corrections")).n >= 5 + ClauseCorrections(RecOut)
        /\ ScenarioThree(RecOut)
               => /\ DetailIn(RecOut, K("corrections")) = JNum(10)
                  /\ OverallIn(RecOut) = JNum(15)

RiskIn(rec) == Get(Get(rec, K("risk_score")), K("overall"))

WithScoreFigures(raw, risk, comp) ==
    LET kept == {i \in 1..Len(raw.keys) : raw.keys[i] \notin {K("risk_score"), K("compliance_score")}}
        RECURSIVE Members(_)
        Members(i) ==
            IF i > Len(raw.keys) THEN <<>>
            ELSE (IF i \in kept THEN <<<<raw.keys[i], raw.items[i]>>>> ELSE <<>>) \o Members(i + 1)
    IN  ObjOf(Members(1) \o risk \o comp)

\* C17: records that differ in risk_score and compliance_score only give the
\* same compliance_score (overall and details), and reconcileAndScore returns
\* for all of them or for none.
C17_ScoreIgnoresOracleFigures ==
    rpc = "out" =>
        \A risk \in RiskChoices, comp \in ComplianceChoices :
            LET other == reconcileAndScore(WithScoreFigures(rin, risk, comp))
            IN  /\ other.ok = rout.ok
                /\ rout.ok => Get(other.val, K("compliance_score")) = Get(RecOut, K("compliance_score"))

\* the Oracle claimed a compliance of 99 and a risk of 40; the score is 0
C17_Witness ==
    /\ rpc = "out" /\ rout.ok
    /\ Get(Get(rin, K("compliance_score")), K("overall")) = JNum(99)
    /\ RiskIn(rin) = JNum(40)
    /\ OverallIn(RecOut) = JNum(0)

\* C18: reconcileAndScore applied to a record it returned gives that record again.
C18_ReconcileIdempotent ==
    (rpc = "out" /\ rout.ok) =>
        /\ reconcileAndScore(RecOut).ok
        /\ reconcileAndScore(RecOut).val = RecOut

\* C19: reconcileAndScore returns a record for every input and never throws.
C19_ReconcileNeverThrows ==
    rpc = "out" => rout.ok

\* C20: a success record of a request has all 8 core categories under
\* article_28_analysis and all 3 supplementary ones under additional_clauses.
C20_AllCategoriesPresent ==
    \A r \in Requests :
        req[r].response.status = 200 =>
            LET rec == req[r].response.body
            IN  /\ \A k \in A28_KEYS : Get(Get(rec, K("article_28_analysis")), k).t = "obj"
                /\ \A k \in EXTRA_KEYS : Get(Get(rec, K("additional_clauses")), k).t = "obj"

\* the finding of the input that the finding k of the result is built from: the
\* last of the three sources that has an object under k
SourceFinding(raw, k) ==
    LET f == Get(Get(raw, K("findings")), k)
        e == Get(Get(raw, K("additional_clauses")), k)
        a == Get(Get(raw, K("article_28_analysis")), k)
    IN  IF f.t = "obj" THEN f ELSE IF e.t = "obj" THEN e ELSE a
EvidenceIn(finding) == toArray(Coalesce(Get(finding, K("evidence")), Get(finding, K("belege"))))
Sections == {K("article_28_analysis"), K("additional_clauses")}
\* evidence list ev of a result finding, built from the input list src: at most
\* 2 entries, the first entries of src in their order
EvidenceTrimmed(ev, src) ==
    /\ Len(ev) <= 2
    /\ Len(ev) <= Len(src)
    /\ \A j \in 1..Len(ev) :
          /\ Get(ev[j], K("quote")).t = "str"
          /\ Len(Get(ev[j], K("quote")).s) <= QuoteMax
          /\ IsPrefix(Get(ev[j], K("quote")).s,
                      CollapseWs(ToStr(Coalesce(Get(src[j], K("quote")), JEmptyStr))))
PageAbsentOrInteger(e) ==
    Get(e, K("page")).t = "undef" \/ (Get(e, K("page")).t = "num" /\ Get(e, K("page")).s = <<>>)
PageAbsentOrPositive(e) == PageAbsentOrInteger(e) /\ (Get(e, K("page")).t = "num" => Get(e, K("page")).n > 0)

\* C22: every finding of the record reconcileAndScore returns has an evidence
\* list of at most 2 entries, in input order, each quote of at most 240
\* characters and each page absent or a positive integer.
C22_EvidenceWellFormed ==
    (rpc = "out" /\ rout.ok) =>
        \A section \in Sections :
            LET fs == Get(rout.val, section)
            IN  \A i \in 1..Len(fs.keys) :
                    LET ev == EvidenceIn(fs.items[i])
                    IN  /\ EvidenceTrimmed(ev, EvidenceIn(SourceFinding(rin, fs.keys[i])))
                        /\ \A j \in 1..Len(ev) : PageAbsentOrPositive(ev[j])

\* the parties of the input (raw.contract_metadata.parties ?? raw.parties) and
\* of the result
InputParties(raw) ==
    Coalesce(Get(Get(raw, K("contract_metadata")), K("parties")), Get(raw, K("parties")))
PartiesIn(rec) == Get(Get(rec, K("contract_metadata")), K("parties"))
\* the names the input gives for a role, in the array form and in the object form
NamesOfRole(p, role) ==
    IF p.t = "arr"
    THEN {ToStr(Coalesce(Get(p.items[i], K("name")), JEmptyStr)) :
             i \in {j \in 1..Len(p.items) : IsStr(Get(p.items[j], K("role")), K(role))}}
    ELSE IF p.t = "obj" /\ Truthy(Get(p, K(role))) THEN {ToStr(Get(p, K(role)))}
    ELSE {}
\* the names the result lists under the label rolle
NamesOfRolle(ps, rolle) ==
    {ToStr(Get(ps.items[i], K("name"))) :
        i \in {j \in 1..Len(ps.items) : IsStr(Get(ps.items[j], K("rolle")), K(rolle))}}
UniformParty(e) == e.t = "obj" /\ e.keys = <<K("rolle"), K("name"), K("land")>>

\* C23: for the array form and for the object form of the input parties,
\* contract_metadata.parties of the result is an array of entries of the one
\* shape {rolle, name, land}, in which the controller of the input appears as
\* "Verantwortlicher" and the processor as "Auftragsverarbeiter".
C23_PartiesUniform ==
    (rpc = "out" /\ rout.ok) =>
        LET ps == PartiesIn(rout.val)
            p == InputParties(rin)
        IN  /\ ps.t = "arr"
            /\ \A i \in 1..Len(ps.items) : UniformParty(ps.items[i])
            /\ NamesOfRole(p, "controller") = NamesOfRolle(ps, "Verantwortlicher")
            /\ NamesOfRole(p, "processor") = NamesOfRolle(ps, "Auftragsverarbeiter")

\* the labels of a data-protection officer (agent-avv/route.ts 460 tests the
\* label; the object form names the key processor_dpo)
DpoLabels == {K("Datenschutzbeauftragter"), K("processor_dpo"), K("dpo")}
IsDpoParty(e) ==
    \E l \in DpoLabels : IsStr(Get(e, K("role")), l) \/ IsStr(Get(e, K("rolle")), l)

\* C24: no entry of contract_metadata.parties of the result is a data-protection
\* officer, for the array form and for the object form of the input; the officer
\* appears at most as contract_metadata.processor_dpo.
C24_NoDpoAmongParties ==
    (rpc = "out" /\ rout.ok) =>
        LET ps == PartiesIn(rout.val)
        IN  \A i \in 1..Len(ps.items) : ~IsDpoParty(ps.items[i])

\* C30: risk_score.overall of every returned record is a number from 0 to 100,
\* derived from the compliance score or taken from the Oracle.
C30_RiskWithinRange ==
    (rpc = "out" /\ rout.ok) =>
        /\ RiskIn(RecOut).t = "num"
        /\ 0 <= Twice(RiskIn(RecOut)) /\ Twice(RiskIn(RecOut)) <= 200

\* ------------------------------------------------------------------ agent-avv: category of an action

\* art\.?\s? followed by one of the numbers
ArtRef(numbers) ==
    {<<"a", "r", "t">> \o dot \o ws \o n :
        dot \in {<<>>, <<".">>}, ws \in {<<>>, <<" ">>, <<NL>>, <<"\t">>, <<"\r">>}, n \in numbers}
\* \b in front of a pattern
WordStart == "WORDSTART"
IsWordChar(c) ==
    \/ Lower(c) \in {"a", "b", "c", "d", "e", "f", "g", "h", "i", "j", "k", "l", "m", "n", "o",
                      "p", "q", "r", "s", "t", "u", "v", "w", "x", "y", "z", "_"}
    \/ IsDigit(c)

\* the alternatives of each expression, in lower case (the flag i), in the order
\* of Object.entries; sub[- ]?processor and meld(e|efrist) are written out
CATEGORY_KEYWORDS ==
    <<
      <<K("instructions_only"),
        {<<"w", "e", "i", "s", "u", "n", "g">>,
          <<"i", "n", "s", "t", "r", "u", "c", "t", "i", "o", "n">>}>>,
      <<K("confidentiality"),
        {<<"v", "e", "r", "t", "r", "a", "u", "l", "i", "c", "h">>,
          <<"c", "o", "n", "f", "i", "d", "e", "n", "t", "i", "a", "l">>}>>,
      <<K("security_TOMs"),
        {<<"m", "a", "sz", "n", "a", "h", "m", "e", "n">>,
          <<"s", "e", "c", "u", "r", "i", "t", "y">>}
            \cup ArtRef({<<"3", "2">>}) \cup {<<WordStart, "t", "o", "m">>}>>,
      <<K("subprocessors"),
        {<<"u", "n", "t", "e", "r", "a", "u", "f", "t", "r", "a", "g", "s">>,
          <<"s", "u", "b", "p", "r", "o", "c", "e", "s", "s", "o", "r">>,
          <<"s", "u", "b", "-", "p", "r", "o", "c", "e", "s", "s", "o", "r">>,
          <<"s", "u", "b", " ", "p", "r", "o", "c", "e", "s", "s", "o", "r">>}>>,
      <<K("data_subject_rights_support"),
        {<<"b", "e", "t", "r", "o", "f", "f", "e", "n", "e", "n", "r", "e", "c", "h", "t", "e">>,
          <<"a", "u", "s", "k", "u", "n", "f", "t">>,
          <<"l", "oe", "s", "c", "h", "u", "n", "g">>,
          <<"w", "i", "d", "e", "r", "s", "p", "r", "u", "c", "h">>,
          <<"2", "2">>}
            \cup ArtRef({<<"1", d>> : d \in {"5", "6", "7", "8", "9"}})>>,
      <<K("breach_support"),
        {<<"v", "e", "r", "l", "e", "t", "z", "u", "n", "g">>,
          <<"b", "r", "e", "a", "c", "h">>,
          <<"m", "e", "l", "d", "e">>}
            \cup ArtRef({<<"3", "3">>, <<"3", "4">>})>>,
      <<K("deletion_return"),
        {<<"l", "oe", "s", "c", "h">>,
          <<"r", "ue", "c", "k", "g", "a", "b">>}>>,
      <<K("audit_rights"),
        {<<"a", "u", "d", "i", "t">>,
          <<"n", "a", "c", "h", "w", "e", "i", "s">>,
          <<"p", "r", "ue", "f">>}>>,
      <<K("international_transfers"),
        {<<"s", "c", "c">>,
          <<"s", "t", "a", "n", "d", "a", "r", "d", "v", "e", "r", "t", "r", "a", "g", "s", "k", "l", "a", "u", "s", "e", "l">>,
          <<"ue", "b", "e", "r", "m", "i", "t", "t", "l">>,
          <<"t", "r", "a", "n", "s", "f", "e", "r">>}>>,
      <<K("liability_cap"),
        {<<"h", "a", "f", "t", "u", "n", "g">>}>>,
      <<K("jurisdiction"),
        {<<"g", "e", "r", "i", "c", "h", "t">>,
          <<"r", "e", "c", "h", "t", "s", "w", "a", "h", "l">>,
          <<"g", "e", "r", "i", "c", "h", "t", "s", "s", "t", "a", "n", "d">>}>>>>

\* rx.test(text) for one alternative
MatchesAt(text, i, pat) ==
    IF pat # <<>> /\ Head(pat) = WordStart
    THEN StartsWith(text, i, Tail(pat)) /\ (i = 1 \/ ~IsWordChar(text[i - 1]))
    ELSE StartsWith(text, i, pat)
Test(pats, text) ==
    \E pat \in pats : \E i \in 1..Len(text) : MatchesAt(ToLower(text), i, pat)

RECURSIVE FirstHit(_, _)
\* Object.entries(CATEGORY_KEYWORDS).find(([, rx]) => rx.test(text)), 0: no hit
FirstHit(text, i) ==
    IF i > Len(CATEGORY_KEYWORDS) THEN 0
    ELSE IF Test(CATEGORY_KEYWORDS[i][2], text) THEN i ELSE FirstHit(text, i + 1)

\* the category stabilizeActions gives an action a without category
InferCategory(a) ==
    LET text == ToStr(Coalesce(Get(a, K("action")), JEmptyStr)) \o <<" ">>
                \o ToStr(Coalesce(Get(a, K("issue")), JEmptyStr))
        hit == FirstHit(text, 1)
    IN  IF hit = 0 THEN K("audit_rights") ELSE CATEGORY_KEYWORDS[hit][1]

\* C25: an action of the input that has no category is kept in
\* recommended_actions of the result, with the category the keyword table gives
\* for its text (the default category when no keyword matches); the result has
\* as many actions as recommended_actions and actions of the input together.
C25_ActionsKeptWithInferredCategory ==
    (rpc = "out" /\ rout.ok) =>
        LET acts == InputActions(rin)
            kept == ActionsIn(RecOut)
        IN  /\ Len(kept) = Len(acts)
            /\ \A i \in 1..Len(acts) :
                  ~Truthy(Get(ActionOf(acts[i]), K("category"))) =>
                      \E j \in 1..Len(kept) :
                          /\ IsStr(Get(kept[j], K("category")), InferCategory(acts[i]))
                          /\ Get(kept[j], K("action")) = Get(ActionOf(acts[i]), K("action"))

\* ------------------------------------------------------------------ extractor harness

\* what the Oracle writes in front of the object: nothing, prose, prose with a
\* closing brace, with a pair of braces, an opening brace
ProseChoices ==
    {<<>>,
     <<"x", " ">>,
     <<"a", " ", "}", " ", "b", " ">>,
     <<"s", "e", "e", " ", "{", "x", "}", ":", " ">>,
     <<"{">>}
\* well-formed objects: empty, a number, strings that hold a brace, nested
ObjectChoices ==
    {<<"{", "}">>,
     <<"{", "\"", "a", "\"", ":", "1", "}">>,
     <<"{", "\"", "a", "\"", ":", "\"", "}", "\"", "}">>,
     <<"{", "\"", "a", "\"", ":", "\"", "{", "\"", "}">>,
     <<"{", "\"", "a", "\"", ":", "{", "\"", "b", "\"", ":", "[", "]", "}", "}">>}
\* what follows the object: nothing, commentary, commentary with braces
CommentaryChoices ==
    {<<>>,
     <<" ", "y">>,
     <<" ", "{", " ", "z">>,
     <<" ", "o", "k", " ", "}">>,
     <<" ", "{", "z", "}">>}

ExtractInputs == [prose : ProseChoices, object : ObjectChoices, commentary : CommentaryChoices]
RawOutput(in) == in.prose \o in.object \o in.commentary

ExtractInit ==
    /\ RequestsAbsent /\ ChunkIdle /\ ReconIdle /\ NormIdle /\ PageMounted
    /\ xin \in ExtractInputs
    /\ xout = [ok |-> FALSE, val |-> JNull, msg |-> <<>>]
    /\ xpc = "in"

RunExtractJson ==
    /\ xpc = "in"
    /\ xout' = extractJson(RawOutput(xin))
    /\ xpc' = "out"
    /\ UNCHANGED <<xin, req, inflight, cvars, rvars, nvars, pvars>>

ExtractNext == RunExtractJson

ExtractSpec == ExtractInit /\ [][ExtractNext]_vars

\* C26: for a raw output made of prose, one well-formed object and trailing
\* commentary, where prose and commentary may hold braces and so may the
\* strings of the object, extractJson returns exactly that object.
C26_ObjectRecovered ==
    xpc = "out" => xout.ok /\ xout.val = JsonParse(xin.object).val

\* ------------------------------------------------------------------ two concurrent requests

\* two POST invocations of the one module instance: they share avvCheckAgent
\* (line 259, never written) and nothing else; runner and partialResults are
\* locals of each invocation (lines 463-464)
PairRequests == {1, 2}

\* the Oracle marks each analysis result with the request whose chunk it read
TaggedOutput(r) == <<"{", "\"", "r", "\"", ":">> \o Digits(r) \o <<"}">>
OwnerOf(part) == Get(part, K("r"))

PairInputs == {FormInput("none", FALSE, <<>>, "string", ParagraphText(ReqMaxChunks))}
\* the answers to the call c: for an analysis the marked record or prose that
\* is skipped, for the merge an object or no output
PairResults(c) ==
    IF c.stage = "analysis" THEN {Res(TRUE, TaggedOutput(c.req)), Res(TRUE, <<"x">>)}
    ELSE {Res(TRUE, <<"{", "}">>), Res(FALSE, <<>>)}
PairErrors == {Err(<<"4", "2", "9", " ", "T", "P", "M">>, "")}

PairInit ==
    /\ req = [r \in PairRequests |-> NewRequest]
    /\ inflight = {}
    /\ ChunkIdle /\ ReconIdle /\ NormIdle /\ ExtractIdle /\ PageMounted

PairNext ==
    \E r \in PairRequests :
        \/ \E in \in PairInputs : ReadInput(r, in)
        \/ Chunking(r)
        \/ CallOracle(r)
        \/ \E c \in inflight : c.req = r /\ \E res \in PairResults(c) : OracleReturn(r, res)
        \/ \E err \in PairErrors : req[r].failures = 0 /\ OracleThrow(r, err)
        \/ WakeUp(r)
        \/ Extract(r)
        \/ Reconcile(r)

PairSpec == PairInit /\ [][PairNext]_vars

\* C27: two requests handled concurrently share no mutable state: under every
\* interleaving the accumulator of a request, and the merge input built from
\* it, hold only records that the Oracle produced from that request's chunks.
C27_RequestsIsolated ==
    /\ \A r \in PairRequests :
          \A i \in 1..Len(req[r].partialResults) : OwnerOf(req[r].partialResults[i]) = JNum(r)
    /\ \A c \in inflight :
          c.stage = "merge" => \A i \in 1..Len(c.parts) : OwnerOf(c.parts[i]) = JNum(c.req)

\* request 1 is merging its two records while request 2 is still analysing and
\* has one record of its own
C27_Witness ==
    /\ \E c \in inflight : c.req = 1 /\ c.stage = "merge" /\ Len(c.parts) = 2
    /\ req[2].phase = "ANALYZING" /\ Len(req[2].partialResults) = 1

\* ------------------------------------------------------------------ dashboard page

\* onUpload invocations per session of the page
MaxUploads == 3

\* what fetch("/api/avv-check") and res.json() give: a rejected fetch, a body
\* that is no JSON, an error response with and without an error text, results
NoFetch == [rejects |-> FALSE, ok |-> FALSE, bodyOk |-> FALSE, json |-> JNull]
FetchResults ==
    {[rejects |-> TRUE, ok |-> FALSE, bodyOk |-> FALSE, json |-> JNull],
     [rejects |-> FALSE, ok |-> FALSE, bodyOk |-> FALSE, json |-> JNull],
     [rejects |-> FALSE, ok |-> FALSE, bodyOk |-> TRUE,
      json |-> ObjOf(<<<<K("error"), JStr(K("Agent-Serverfehler"))>>>>)],
     [rejects |-> FALSE, ok |-> FALSE, bodyOk |-> TRUE, json |-> JObj(<<>>, <<>>)],
     [rejects |-> FALSE, ok |-> TRUE, bodyOk |-> TRUE,
      json |-> ObjOf(<<<<K("risk_rationale"), JStr(K("r1"))>>>>)],
     [rejects |-> FALSE, ok |-> TRUE, bodyOk |-> TRUE,
      json |-> ObjOf(<<<<K("risk_rationale"), JStr(K("r2"))>>>>)]}

\* catch (e) { setErr(e.message); setData(null) }
Caught(p, message) == [p EXCEPT !.err = JStr(message), !.data = JNull]
\* finally { setLoading(false); e.target.value = ""; setInputKey(k => k + 1) }
Finally(p) == [p EXCEPT !.loading = FALSE, !.inputKey = @ + 1]

\* lines 176-183: the user picks a file (or none) in the input, which is never
\* disabled; with a file the handler clears err, sets loading and awaits fetch
StartUpload(file) ==
    /\ Len(uploads) < MaxUploads
    /\ IF file = "none"
       THEN UNCHANGED <<page, uploads>>
       ELSE /\ page' = [page EXCEPT !.err = JNull, !.loading = TRUE]
            /\ uploads' = Append(uploads, [pc |-> "fetch", res |-> NoFetch])
    /\ UNCHANGED <<req, inflight, cvars, rvars, nvars, xvars>>

\* line 183: the fetch of upload u settles; a rejection runs catch and finally
FetchSettles(u, res) ==
    /\ u \in 1..Len(uploads) /\ uploads[u].pc = "fetch"
    /\ IF res.rejects
       THEN /\ page' = Finally(Caught(page, K("Failed to fetch")))
            /\ uploads' = [uploads EXCEPT ![u].pc = "done"]
       ELSE /\ uploads' = [uploads EXCEPT ![u] = [pc |-> "json", res |-> res]]
            /\ UNCHANGED page
    /\ UNCHANGED <<req, inflight, cvars, rvars, nvars, xvars>>

\* lines 184-194: res.json() settles; then the rest of the handler runs
JsonSettles(u) ==
    /\ u \in 1..Len(uploads) /\ uploads[u].pc = "json"
    /\ LET res == uploads[u].res
       IN  page' = Finally(IF ~res.bodyOk THEN Caught(page, K("SyntaxError"))
                           ELSE IF ~res.ok
                           THEN Caught(page, ToStr(OrElse(Get(res.json, K("error")),
                                                          JStr(K("API error")))))
                           ELSE [page EXCEPT !.data = res.json])
    /\ uploads' = [uploads EXCEPT ![u].pc = "done"]
    /\ UNCHANGED <<req, inflight, cvars, rvars, nvars, xvars>>

PageInit ==
    /\ RequestsAbsent /\ ChunkIdle /\ ReconIdle /\ NormIdle /\ ExtractIdle
    /\ PageMounted

PageNext ==
    \/ \E file \in {"none", "pdf"} : StartUpload(file)
    \/ \E u \in 1..MaxUploads : \E res \in FetchResults : FetchSettles(u, res)
    \/ \E u \in 1..MaxUploads : JsonSettles(u)

PageSpec == PageInit /\ [][PageNext]_vars

UploadsInFlight == {u \in 1..Len(uploads) : uploads[u].pc # "done"}

\* C28: in the dashboard page the error message and the result are never both
\* set, after any sequence of uploads, overlapping ones included: err # null
\* implies data = null.
C28_ErrorExcludesData == page.err # JNull => page.data = JNull

\* C29: loading is true in every state in which an upload is in flight, and it
\* is false only when none is, also when uploads overlap.
C29_LoadingWhileInFlight == UploadsInFlight # {} => page.loading

\* ------------------------------------------------------------------ avv-check: normalizers

\* (the letter u-umlaut is written ue, o-umlaut oe)
Fehlt == <<"f", "e", "h", "l", "t">>
Vorhanden == <<"v", "o", "r", "h", "a", "n", "d", "e", "n">>
NichtGefunden == <<"n", "i", "c", "h", "t", " ", "g", "e", "f", "u", "n", "d", "e", "n">>

\* the tables as sequences of <<key, value>>
STATUS_MAP ==
    <<<<Met, Erfuellt>>, <<Partial, Teilweise>>, <<Missing, Fehlt>>, <<Present, Vorhanden>>,
      <<NotFound, NichtGefunden>>, <<Erfuellt, Erfuellt>>, <<Teilweise, Teilweise>>,
      <<Fehlt, Fehlt>>, <<Vorhanden, Vorhanden>>, <<NichtGefunden, NichtGefunden>>>>

ART28_KEY_MAP ==
    <<<<K("instructions_only"), K("weisung")>>,
      <<K("confidentiality"), K("vertraulichkeit")>>,
      <<K("security_TOMs"), K("toms")>>,
      <<K("subprocessors"), K("unterauftragsverarbeiter")>>,
      <<K("data_subject_rights_support"), K("betroffenenrechte")>>,
      <<K("breach_support"), K("vorfallmeldung")>>,
      <<K("deletion_return"), K("loeschung_rueckgabe")>>,
      <<K("audit_rights"), K("audit_nachweis")>>,
      <<K("weisung"), K("weisung")>>,
      <<K("vertraulichkeit"), K("vertraulichkeit")>>,
      <<K("toms"), K("toms")>>,
      <<K("unterauftragsverarbeiter"), K("unterauftragsverarbeiter")>>,
      <<K("betroffenenrechte"), K("betroffenenrechte")>>,
      <<K("vorfallmeldung"), K("vorfallmeldung")>>,
      <<K("loeschung_rueckgabe"), K("loeschung_rueckgabe")>>,
      <<K("audit_nachweis"), K("audit_nachweis")>>>>

EXTRAS_KEY_MAP ==
    <<<<K("international_transfers"), K("internationale_uebermittlungen")>>,
      <<K("liability_cap"), K("haftungsbegrenzung")>>,
      <<K("jurisdiction"), K("gerichtsstand_recht")>>,
      <<K("internationale_uebermittlungen"), K("internationale_uebermittlungen")>>,
      <<K("haftungsbegrenzung"), K("haftungsbegrenzung")>>,
      <<K("gerichtsstand_recht"), K("gerichtsstand_recht")>>>>

RECURSIVE MapIndex(_, _, _)
MapIndex(map, k, i) ==
    IF i > Len(map) THEN 0
    ELSE IF map[i][1] = k THEN i ELSE MapIndex(map, k, i + 1)
\* map[k] ?? dflt
MapGet(map, k, dflt) ==
    LET i == MapIndex(map, k, 1) IN IF i = 0 THEN dflt ELSE map[i][2]

\* what Object.keys(src) and src[k] enumerate: the members of an object, the
\* elements of an array and the characters of a string under their indices
ObjectEntries(src) ==
    IF src.t = "str"
    THEN JObj([i \in 1..Len(src.s) |-> Digits(i - 1)], [i \in 1..Len(src.s) |-> JStr(<<src.s[i]>>)])
    ELSE EntriesOf(src)

\* { status: STATUS_MAP[v?.status] ?? dflt, belege: v?.[first] ?? v?.[second] ?? [] }
NormFinding(v, dflt, first, second) ==
    JObj(<<K("status"), K("belege")>>,
         <<JStr(MapGet(STATUS_MAP, ToStr(Get(v, K("status"))), dflt)),
           Coalesce(Get(v, K(first)), Coalesce(Get(v, K(second)), JArr(<<>>)))>>)

RECURSIVE NormSection(_, _, _, _, _, _, _)
\* for (const k of Object.keys(src)) { const canon = keyMap[k] ?? k; out[canon] = ... }
NormSection(src, keyMap, dflt, first, second, i, acc) ==
    IF i > Len(src.keys) THEN acc
    ELSE NormSection(src, keyMap, dflt, first, second, i + 1,
                     SetMember(acc, MapGet(keyMap, src.keys[i], src.keys[i]),
                               NormFinding(src.items[i], dflt, first, second)))

\* the entry of parteien built from p
ParteiOf(p) ==
    LET role == Get(p, K("role"))
    IN  JObj(<<K("rolle"), K("name"), K("land")>>,
             <<IF IsStr(role, K("controller")) THEN JStr(K("Verantwortlicher"))
               ELSE IF IsStr(role, K("processor")) THEN JStr(K("Auftragsverarbeiter"))
               ELSE Coalesce(role, JEmptyStr),
               Coalesce(Get(p, K("name")), JEmptyStr),
               Coalesce(Get(p, K("country")), JEmptyStr)>>)

\* (m.parties ?? []).map(...) throws when parties is no array, p.role when p is
\* null or undefined
ParteienThrows(m) ==
    LET ps == Coalesce(Get(m, K("parties")), JArr(<<>>))
    IN  \/ ps.t # "arr"
        \/ \E i \in 1..Len(ps.items) : ps.items[i].t \in {"null", "undef"}

EmptyObj == JObj(<<>>, <<>>)

\* the record both normalizers return
NormOut(meta, art28, extras, rationale, actions) ==
    JObj(<<K("vertrag_metadata"), K("pruefung"), K("risk_rationale"), K("actions")>>,
         <<meta,
           JObj(<<K("art_28"), K("zusatzklauseln")>>, <<art28, extras>>),
           rationale, actions>>)

\* result [ok, val]; ok = FALSE: it threw
normalizeFromAgentLike(json) ==
    LET m == Get(json, K("contract_metadata"))
        ps == toArray(Coalesce(Get(m, K("parties")), JArr(<<>>)))
        meta == IF Truthy(m)
                THEN JObj(<<K("titel"), K("datum"), K("parteien")>>,
                          <<Coalesce(Get(m, K("title")), JEmptyStr),
                            Coalesce(Get(m, K("date")), JEmptyStr),
                            JArr([i \in 1..Len(ps) |-> ParteiOf(ps[i])])>>)
                ELSE EmptyObj
        a28 == ObjectEntries(Coalesce(Get(Get(json, K("findings")), K("art_28")), EmptyObj))
        extras == ObjectEntries(Coalesce(Get(Get(json, K("findings")), K("additional_clauses")),
                                         EmptyObj))
    IN  IF Truthy(m) /\ ParteienThrows(m) THEN [ok |-> FALSE, val |-> JNull]
        ELSE [ok |-> TRUE,
              val |-> NormOut(meta,
                        NormSection(a28, ART28_KEY_MAP, Fehlt, "evidence", "belege", 1, EmptyObj),
                        NormSection(extras, EXTRAS_KEY_MAP, NichtGefunden, "evidence", "belege",
                                    1, EmptyObj),
                        Coalesce(Get(Get(json, K("risk_score")), K("rationale")), JNull),
                        Coalesce(Get(json, K("actions")), JArr(<<>>)))]

normalizeFromModel(json) ==
    LET a28 == ObjectEntries(Coalesce(Get(Get(json, K("pruefung")), K("art_28")), EmptyObj))
        extras == ObjectEntries(Coalesce(Get(Get(json, K("pruefung")), K("zusatzklauseln")),
                                         EmptyObj))
    IN  [ok |-> TRUE,
         val |-> NormOut(Coalesce(Get(json, K("vertrag_metadata")), EmptyObj),
                   NormSection(a28, ART28_KEY_MAP, Fehlt, "belege", "evidence", 1, EmptyObj),
                   NormSection(extras, EXTRAS_KEY_MAP, NichtGefunden, "belege", "evidence",
                               1, EmptyObj),
                   Coalesce(Get(json, K("risk_rationale")), JNull),
                   Coalesce(Get(json, K("actions")), JArr(<<>>)))]

\* ------------------------------------------------------------------ normalizer harness

\* the art_28 section of the Oracle's JSON: absent, the English aliases, the
\* German keys, an alias and its canonical key together, a key outside the
\* table, findings that are no objects, a section that is a string
NormCoreChoices ==
    {JUndef,
     AllCore(Met),
     ObjOf(<<<<K("weisung"), Finding(JStr(Erfuellt))>>,
             <<K("loeschung_rueckgabe"), Finding(JStr(Fehlt))>>>>),
     ObjOf(<<<<K("security_TOMs"), Finding(JStr(Partial))>>,
             <<K("toms"), FindingWithEvidence(JStr(Met))>>>>),
     ObjOf(<<<<K("confidentiality"), Finding(JStr(Partial))>>,
             <<K("foo"), Finding(JStr(Met))>>>>),
     ObjOf(<<<<K("audit_rights"), JNull>>, <<K("subprocessors"), Finding(JNum(1))>>>>),
     JStr(Met)}

NormExtraChoices ==
    {JUndef,
     ObjOf(<<<<K("international_transfers"), Finding(JStr(Present))>>,
             <<K("liability_cap"), Finding(JStr(NotFound))>>,
             <<K("jurisdiction"), Finding(JStr(Met))>>>>),
     ObjOf(<<<<K("haftungsbegrenzung"), Finding(JStr(Vorhanden))>>,
             <<K("liability_cap"), Finding(JStr(<<"x">>))>>>>),
     ObjOf(<<<<K("jurisdiction"), Finding(JStr(Present))>>,
             <<K("bar"), Finding(JStr(Present))>>>>)}

\* contract_metadata: absent, parties as an array, parties as an object
NormMetaChoices ==
    {<<>>,
     <<<<K("contract_metadata"),
         ObjOf(<<<<K("title"), JStr(K("AVV"))>>,
                 <<K("parties"),
                   JArr(<<ObjOf(<<<<K("role"), JStr(K("controller"))>>,
                                   <<K("name"), JStr(K("A"))>>>>),
                          ObjOf(<<<<K("role"), JStr(K("dpo"))>>>>)>>)>>>>)>>>>,
     <<<<K("contract_metadata"),
         ObjOf(<<<<K("parties"), ObjOf(<<<<K("controller"), JStr(K("A"))>>>>)>>>>)>>>>}

\* the two shapes the route tells apart (line 271)
AgentShaped(a, e) ==
    <<<<K("findings"),
        ObjOf((IF a.t = "undef" THEN <<>> ELSE <<<<K("art_28"), a>>>>)
              \o (IF e.t = "undef" THEN <<>> ELSE <<<<K("additional_clauses"), e>>>>))>>>>
ModelShaped(a, e) ==
    <<<<K("pruefung"),
        ObjOf((IF a.t = "undef" THEN <<>> ELSE <<<<K("art_28"), a>>>>)
              \o (IF e.t = "undef" THEN <<>> ELSE <<<<K("zusatzklauseln"), e>>>>))>>>>

NormInputs ==
    {ObjOf(meta \o sections) :
        meta \in NormMetaChoices,
        sections \in {AgentShaped(a, e) : a \in NormCoreChoices, e \in NormExtraChoices}
                     \cup {ModelShaped(a, e) : a \in NormCoreChoices, e \in NormExtraChoices}}

NormInit ==
    /\ RequestsAbsent /\ ChunkIdle /\ ReconIdle /\ ExtractIdle /\ PageMounted
    /\ nin \in NormInputs
    /\ nout = JNull
    /\ npc = "in"

RunNormalizeFromAgentLike ==
    /\ npc = "in"
    /\ nout' = normalizeFromAgentLike(nin)
    /\ npc' = "normalizeFromAgentLike"
    /\ UNCHANGED <<nin, req, inflight, cvars, rvars, xvars, pvars>>

RunNormalizeFromModel ==
    /\ npc = "in"
    /\ nout' = normalizeFromModel(nin)
    /\ npc' = "normalizeFromModel"
    /\ UNCHANGED <<nin, req, inflight, cvars, rvars, xvars, pvars>>

NormNext == RunNormalizeFromAgentLike \/ RunNormalizeFromModel

NormSpec == NormInit /\ [][NormNext]_vars

\* ------------------------------------------------------------------ claims on the normalizers

Art28Canonical == {ART28_KEY_MAP[i][2] : i \in 1..Len(ART28_KEY_MAP)}
ExtrasCanonical == {EXTRAS_KEY_MAP[i][2] : i \in 1..Len(EXTRAS_KEY_MAP)}
SectionKeys(rec, section) ==
    LET o == Get(Get(rec, K("pruefung")), K(section)) IN {o.keys[i] : i \in 1..Len(o.keys)}

\* C21: in the record normalizeFromAgentLike or normalizeFromModel returns,
\* every key of pruefung.art_28 is a canonical core key and every key of
\* pruefung.zusatzklauseln a canonical supplementary key; a key of the input
\* that is not in the alias table does not appear.
C21_OnlyCanonicalKeys ==
    (npc \in {"normalizeFromAgentLike", "normalizeFromModel"} /\ nout.ok) =>
        /\ SectionKeys(nout.val, "art_28") \subseteq Art28Canonical
        /\ SectionKeys(nout.val, "zusatzklauseln") \subseteq ExtrasCanonical

====
